---------------------------- MODULE Spec2Model ----------------------------
(***************************************************************************)
(* The FTP server of FTPServer.cpp / espFtpServer.cpp as a state machine.  *)
(*                                                                         *)
(* One step of the server is one call of handleFTP() (a "pump").  Between  *)
(* two pumps the peers act: a client connects to the control port, sends   *)
(* bytes, closes; a data peer connects, sends, closes; time passes.        *)
(*                                                                         *)
(* Arduino Strings are sequences of one-character strings.  The two server *)
(* sources of the repository are told apart by the variable variant.       *)
(***************************************************************************)
EXTENDS Integers, Sequences, FiniteSets, TLC

VARIABLES
    variant,         \* "FTPServer" (FTPServer.cpp) or "espFtpServer" (espFtpServer.cpp)
    FTP_USER,        \* _FTP_USER, <<>> = no user name configured
    FTP_PASS,        \* _FTP_PASS, <<>> = no password configured
    scenario,        \* which command lines the clients of this run send
    cmdState,        \* state of the control connection
    transferState,   \* state of the data connection
    command,         \* the packed (up to 4 chars) command code, <<>> = 0
    cmdLine,         \* command line as read so far
    cmdString,       \* the command token, upper-cased
    parameters,      \* the parameter string
    cwd,             \* the current directory
    rnFrom,          \* source name of a pending rename
    file,            \* the File handle
    fileBuffer,      \* "NULL" or "alloc"
    fileBufferSize,  \* size of the buffer (stale when fileBuffer is NULL)
    bytesTransfered, \* byte counter of the transfer
    dataPassiveConn, \* passive mode?
    dataIP,          \* peer address for active mode
    dataPort,        \* port for the data connection
    control,         \* the control socket: [conn, id]
    ctrlIn,          \* bytes received on the control socket, not read yet
    data,            \* the data socket: [conn]
    dataRx,          \* bytes received on the data socket, not read yet
    dataTx,          \* bytes written to the data socket since it was opened
    fs,              \* the filesystem: path -> [kind, bytes]
    expired,         \* the deadline (aTimeout / millisEndConnection) has passed
    timeoutKind,     \* which deadline is armed: "never", "login", "session"
    backlog,         \* clients waiting on controlServer
    dataBacklog,     \* a peer is waiting on dataServer
    nextId,          \* identity of the next control client
    hung,            \* handleFTP() did not return
    out,             \* replies written to the control socket by the last pump
    hist,            \* what the last pump did (observation only)
    client,          \* the client engine (FTPClient): phase, status, reply wait
    clock,           \* millis() and the deadline of espFtpServer.cpp, in ms
    wire             \* a byte stream on its way to the control socket, and
                     \* the commands decoded from it so far

srvVars == <<cmdState, transferState, command, cmdLine, cmdString, parameters, cwd,
             rnFrom, file, fileBuffer, fileBufferSize, bytesTransfered,
             dataPassiveConn, dataIP, dataPort>>
netVars == <<control, ctrlIn, data, dataRx, dataTx, backlog, dataBacklog, nextId>>
\* what no action of the server or of its peers changes
cfgVars == <<variant, FTP_USER, FTP_PASS, scenario, client, clock, wire>>
vars == <<cfgVars, srvVars, netVars, fs, expired, timeoutKind, hung, out, hist>>

-----------------------------------------------------------------------------
(* Bounds of the model *)

MaxConn == 2        \* control clients that ever connect
MaxPending == 1     \* complete lines a client keeps unread on the control socket
MaxData == 2        \* bytes a data peer sends on one data connection
MaxPath == 4        \* characters of the longest working directory

(* Program constants *)

FTP_CMD_SIZE == 127
FTP_DATA_PORT_PASV == 50009
TCP_MSS == 1460

-----------------------------------------------------------------------------
(* Arduino String operations *)

Min(a, b) == IF a < b THEN a ELSE b

\* Op(x) with x evaluated once, before Op uses it
Strict(Op(_), x) == CHOOSE r \in {Op(v) : v \in {x}} : TRUE

IsSpace(c) == c \in {" ", "\t", "\n", "\r"}

RECURSIVE TrimLeft(_)
TrimLeft(s) == IF s /= <<>> /\ IsSpace(Head(s)) THEN TrimLeft(Tail(s)) ELSE s

RECURSIVE TrimRight(_)
TrimRight(s) ==
    IF s /= <<>> /\ IsSpace(s[Len(s)]) THEN TrimRight(SubSeq(s, 1, Len(s) - 1)) ELSE s

\* String::trim()
Trim(s) == TrimRight(TrimLeft(s))

\* String::indexOf(c): 0-based index of the first c, -1 when there is none
IndexOf(s, c) ==
    IF \E i \in 1..Len(s) : s[i] = c
    THEN (CHOOSE i \in 1..Len(s) : s[i] = c /\ \A j \in 1..(i - 1) : s[j] /= c) - 1
    ELSE -1

\* String::lastIndexOf(c): 0-based index of the last c, -1 when there is none
LastIndexOf(s, c) ==
    IF \E i \in 1..Len(s) : s[i] = c
    THEN (CHOOSE i \in 1..Len(s) : s[i] = c /\ \A j \in (i + 1)..Len(s) : s[j] /= c) - 1
    ELSE -1

\* String::remove(index): cut from the 0-based index to the end; nothing when
\* the index is not inside the string
RemoveFrom(s, index) ==
    IF index < 0 \/ index >= Len(s) THEN s ELSE SubSeq(s, 1, index)

\* String::substring(from)
SubstringFrom(s, from) == IF from >= Len(s) THEN <<>> ELSE SubSeq(s, from + 1, Len(s))

\* String::endsWith("/")
EndsWithSlash(s) == s /= <<>> /\ s[Len(s)] = "/"

LowerCase == <<"a","b","c","d","e","f","g","h","i","j","k","l","m",
               "n","o","p","q","r","s","t","u","v","w","x","y","z">>
UpperCase == <<"A","B","C","D","E","F","G","H","I","J","K","L","M",
               "N","O","P","Q","R","S","T","U","V","W","X","Y","Z">>

ToUpperChar(c) ==
    IF \E i \in 1..26 : LowerCase[i] = c
    THEN UpperCase[CHOOSE i \in 1..26 : LowerCase[i] = c]
    ELSE c

\* String::toUpperCase()
ToUpperCase(s) == [i \in 1..Len(s) |-> ToUpperChar(s[i])]

-----------------------------------------------------------------------------
(* Command codes: FTP_CMD(x) is the token's characters packed in a uint32,  *)
(* that is its first four bytes (a shorter token is followed by its NUL).   *)

NoCmd == <<>>

\* command = *(const uint32_t *)cmdString.c_str()
PackCommand(token) == SubSeq(token, 1, Min(4, Len(token)))

cmdUSER == <<"U","S","E","R">>
cmdPASS == <<"P","A","S","S">>
cmdQUIT == <<"Q","U","I","T">>
cmdNOOP == <<"N","O","O","P">>
cmdCDUP == <<"C","D","U","P">>
cmdCWD  == <<"C","W","D">>
cmdPWD  == <<"P","W","D">>
cmdMODE == <<"M","O","D","E">>
cmdPASV == <<"P","A","S","V">>
cmdPORT == <<"P","O","R","T">>
cmdSTRU == <<"S","T","R","U">>
cmdTYPE == <<"T","Y","P","E">>
cmdABOR == <<"A","B","O","R">>
cmdDELE == <<"D","E","L","E">>
cmdLIST == <<"L","I","S","T">>
cmdMLSD == <<"M","L","S","D">>
cmdNLST == <<"N","L","S","T">>
cmdRETR == <<"R","E","T","R">>
cmdSTOR == <<"S","T","O","R">>
cmdMKD  == <<"M","K","D">>
cmdRMD  == <<"R","M","D">>
cmdRNFR == <<"R","N","F","R">>
cmdRNTO == <<"R","N","T","O">>
cmdFEAT == <<"F","E","A","T">>
cmdMDTM == <<"M","D","T","M">>
cmdSIZE == <<"S","I","Z","E">>
cmdSITE == <<"S","I","T","E">>
cmdSYST == <<"S","Y","S","T">>

SupportedCommands ==
    {cmdUSER, cmdPASS, cmdQUIT, cmdNOOP, cmdCDUP, cmdCWD, cmdPWD, cmdMODE, cmdPASV,
     cmdPORT, cmdSTRU, cmdTYPE, cmdABOR, cmdDELE, cmdLIST, cmdMLSD, cmdNLST, cmdRETR,
     cmdSTOR, cmdMKD, cmdRMD, cmdRNFR, cmdRNTO, cmdFEAT, cmdMDTM, cmdSIZE, cmdSITE,
     cmdSYST}

-----------------------------------------------------------------------------
(* Values of the model *)

SLASH == <<"/">>

\* internalState: the control states in the order of the enum
StateNo(st) ==
    CASE st = "cInit" -> 0 [] st = "cWait" -> 1 [] st = "cCheck" -> 2
      [] st = "cUserId" -> 3 [] st = "cPassword" -> 4 [] st = "cLoginOk" -> 5
      [] st = "cProcess" -> 6

\* a closed File
NoFile == [open |-> FALSE, path |-> <<>>, mode |-> "", dir |-> FALSE, pos |-> 0]

\* fileBufferSize before the first allocation: not initialised
Undef == -1

\* what a pump that did nothing special is observed to have done
NoHist == [pump |-> FALSE, pre |-> "", cmd |-> NoCmd, token |-> <<>>, handler |-> "",
           rc |-> 1, gated |-> FALSE, dataAttempt |-> FALSE, lines |-> 0,
           moved |-> 0, accepted |-> FALSE, tmoReset |-> FALSE, alloc |-> "",
           calls |-> 0]

\* names of the filesystem
nameA == <<"a">>
nameB == <<"b">>
nameD == <<"d">>
nameN == <<"n">>
pathA == <<"/", "a">>
pathB == <<"/", "b">>
pathD == <<"/", "d">>
pathDash == <<"/", "-">>
nameLog == <<"l", "o", "g">>
pathLog == <<"/">> \o nameLog
FsPaths == {pathA, pathB, pathD, pathDash, pathLog}

NoEntry == [kind |-> "none", bytes |-> <<>>]
FileEntry(bytes) == [kind |-> "file", bytes |-> bytes]
DirEntry == [kind |-> "dir", bytes |-> <<>>]

\* the filesystem the server is started on: a file /a, a directory /d
InitFs == [p \in FsPaths |-> CASE p = pathA -> FileEntry(<<1, 2>>)
                               [] p = pathD -> DirEntry
                               [] OTHER -> NoEntry]

FsKind(f, p) == IF p = SLASH THEN "dir" ELSE IF p \in FsPaths THEN f[p].kind ELSE "none"

\* FS::exists(path)
FsExists(f, p) == FsKind(f, p) /= "none"

\* File::size()
FileSize(w) ==
    IF w.file.open /\ ~w.file.dir /\ w.file.path \in FsPaths
    THEN Len(w.fs[w.file.path].bytes) ELSE 0

-----------------------------------------------------------------------------
(* The working copy of the server's fields, threaded through one pump *)

Cur ==
    [variant |-> variant, FTP_USER |-> FTP_USER, FTP_PASS |-> FTP_PASS,
     cmdState |-> cmdState, transferState |-> transferState, command |-> command,
     cmdLine |-> cmdLine, cmdString |-> cmdString, parameters |-> parameters,
     cwd |-> cwd, rnFrom |-> rnFrom, file |-> file, fileBuffer |-> fileBuffer,
     fileBufferSize |-> fileBufferSize, bytesTransfered |-> bytesTransfered,
     dataPassiveConn |-> dataPassiveConn, dataIP |-> dataIP,
     dataPort |-> dataPort,
     control |-> control, ctrlIn |-> ctrlIn, data |-> data, dataRx |-> dataRx,
     dataTx |-> dataTx, fs |-> fs, expired |-> expired, timeoutKind |-> timeoutKind,
     backlog |-> backlog, dataBacklog |-> dataBacklog, hung |-> FALSE,
     out |-> <<>>, hist |-> [NoHist EXCEPT !.pump = TRUE, !.pre = cmdState],
     rc |-> 1, more |-> TRUE]

Reply(code, msg, arg) == [code |-> code, msg |-> msg, arg |-> arg]

\* FTP_SEND_MSG: control.printf_P(...) reaches the client when the socket is open
Send(w, code, msg, arg) ==
    IF w.control.conn THEN [w EXCEPT !.out = Append(@, Reply(code, msg, arg))] ELSE w

\* control.stop()
ControlStop(w) == [w EXCEPT !.control.conn = FALSE, !.ctrlIn = <<>>]

\* data.stop()
DataStop(w) == [w EXCEPT !.data.conn = FALSE, !.dataRx = <<>>]

\* file.close()
FileClose(w) == [w EXCEPT !.file = NoFile]

\* aTimeout.reset(..) / updateTimeout(..)
TimeoutReset(w, kind) ==
    [w EXCEPT !.expired = FALSE, !.timeoutKind = kind, !.hist.tmoReset = TRUE]

freeBuffer(w) == [w EXCEPT !.fileBuffer = "NULL"]

abortTransfer(w) ==
    LET a == IF w.transferState /= "tIdle"
             THEN Send(DataStop(FileClose(w)), 426, "Transfer aborted", <<>>)
             ELSE w
    IN  [freeBuffer(a) EXCEPT !.transferState = "tIdle"]

disconnectClient(w, gracious) ==
    LET a == abortTransfer(w)
        b == IF gracious THEN Send(a, 221, "Goodbye.", <<>>)
                         ELSE Send(a, 231, "Service terminated.", <<>>)
    IN  ControlStop(b)

iniVariables(w) ==
    freeBuffer([w EXCEPT !.dataPassiveConn = TRUE, !.cwd = SLASH, !.cmdState = "cInit",
                         !.transferState = "tIdle", !.rnFrom = <<>>, !.cmdLine = <<>>,
                         !.cmdString = <<>>, !.parameters = <<>>, !.command = NoCmd])

closeTransfer(w) ==
    DataStop(FileClose(freeBuffer(Send(w, 226, "File successfully transferred", <<>>))))

-----------------------------------------------------------------------------
(* Path resolution *)

\* the value standing for a call that never returns
Hang == <<"<hang>">>

\* while (tmp.length() > 1 && tmp.endsWith("/")) tmp.remove(cwd.length() - 1);
\* a remove() that changes nothing repeats for ever
RECURSIVE Sanitize(_, _)
\* a clean-up that leaves the separators at the end
SanitizeNone(tmp, cwdLen) ==
    IF Len(tmp) = 0 THEN SLASH ELSE tmp

Sanitize(tmp, cwdLen) ==
    IF Len(tmp) > 1 /\ EndsWithSlash(tmp)
    THEN IF RemoveFrom(tmp, cwdLen - 1) = tmp
         THEN Hang
         ELSE Sanitize(RemoveFrom(tmp, cwdLen - 1), cwdLen)
    ELSE IF Len(tmp) = 0 THEN SLASH ELSE tmp

getPathName(dir, param, fullname) ==
    LET joined == IF param /= <<>> /\ param[1] = "/"
                  THEN param
                  ELSE IF param /= <<>>
                       THEN (IF EndsWithSlash(dir) THEN dir ELSE dir \o SLASH) \o param
                       ELSE dir
        stripped == IF ~fullname /\ LastIndexOf(joined, "/") >= 0
                    THEN RemoveFrom(joined, LastIndexOf(joined, "/"))
                    ELSE joined
    IN  Sanitize(stripped, Len(dir))

getFileName(dir, param, fullFilePath) ==
    LET tmp == getPathName(dir, param, TRUE)
    IN  IF tmp /= Hang /\ ~fullFilePath /\ LastIndexOf(tmp, "/") > 0
        THEN SubstringFrom(tmp, LastIndexOf(tmp, "/"))
        ELSE tmp

-----------------------------------------------------------------------------
(* The line accumulator and command decoder *)

\* the terminator branch of readChar(): trim, split at the first space, upper-case
\* the token and pack it
DecodeLine(w) ==
    LET line == Trim(w.cmdLine)
        pos == IndexOf(line, " ")
        tok == ToUpperCase(IF pos > 0 THEN RemoveFrom(line, pos) ELSE line)
    IN  [w EXCEPT !.parameters = IF pos > 0 THEN Trim(SubstringFrom(line, pos + 1))
                                            ELSE <<>>,
                  !.cmdString = tok,
                  !.command = PackCommand(tok),
                  !.cmdLine = <<>>,
                  !.hist.lines = @ + 1,
                  !.hist.token = tok,
                  !.rc = 1]

\* cmdLine += c; if (cmdLine.length() > FTP_CMD_SIZE) { cmdLine.clear(); 500 }
AddChar(w, c) ==
    IF Len(w.cmdLine) + 1 > FTP_CMD_SIZE
    THEN Send([w EXCEPT !.cmdLine = <<>>], 500, "Line too long", <<>>)
    ELSE [w EXCEPT !.cmdLine = Append(@, c)]

\* the characters s.cs pass through the else branch one after the other (the
\* sequence is halved to keep the evaluation shallow)
RECURSIVE AddChars(_)
AddChars(s0) ==
    LET Body(s) ==
            IF Len(s.cs) = 0 THEN s.w
            ELSE IF Len(s.cs) = 1
            THEN AddChar(s.w, IF s.cs[1] = "\\" THEN "/" ELSE s.cs[1])
            ELSE LET h == Len(s.cs) \div 2
                 IN  AddChars([w |-> AddChars([w |-> s.w, cs |-> SubSeq(s.cs, 1, h)]),
                               cs |-> SubSeq(s.cs, h + 1, Len(s.cs))])
    IN  Strict(Body, s0)

\* the first terminator of s, 0 without one
FirstTerminator(s) ==
    IF \E i \in 1..Len(s) : s[i] \in {"\n", "\r"}
    THEN CHOOSE i \in 1..Len(s) : s[i] \in {"\n", "\r"} /\ \A j \in 1..(i - 1) : s[j] \notin {"\n", "\r"}
    ELSE 0

\* the while (control.available()) loop of readChar(): characters are added up
\* to the first terminator, which ends the loop with or without a command
ReadLoop(w0) ==
    LET Body(w) ==
            LET t == FirstTerminator(w.ctrlIn)
                n == IF t = 0 THEN Len(w.ctrlIn) ELSE t - 1
                r == AddChars([w |-> [w EXCEPT !.ctrlIn = SubSeq(@, n + 1, Len(@))],
                               cs |-> SubSeq(w.ctrlIn, 1, n)])
                q == [r EXCEPT !.ctrlIn = Tail(@)]
            IN  IF t = 0 THEN [r EXCEPT !.rc = 0]
                ELSE IF Trim(q.cmdLine) = <<>>
                THEN [q EXCEPT !.cmdLine = <<>>, !.rc = 0]
                ELSE DecodeLine(q)
    IN  Strict(Body, w0)

\* a readChar() that starts every call with an empty line buffer
readCharForgetful(w) ==
    IF w.command /= NoCmd THEN [w EXCEPT !.rc = 1]
    ELSE ReadLoop([w EXCEPT !.cmdLine = <<>>])

\* a readChar() that looks for a line whether or not a command is pending
readCharAnyway(w) == ReadLoop(w)

\* readChar(): rc = 1 when a command is available
readChar(w) == IF w.command /= NoCmd THEN [w EXCEPT !.rc = 1] ELSE ReadLoop(w)

-----------------------------------------------------------------------------
(* The data channel and the transfer engine *)
(* (for FTPServer.cpp these live in its base class FTPCommon, which the    *)
(* server sources do not contain; the functions of the same name of        *)
(* espFtpServer.cpp are taken for both)                                    *)

\* dataConnect(): rc = -1 no data connection, 0 need more time, 1 data ok
dataConnect(w, connOk) ==
    LET a == [w EXCEPT !.hist.dataAttempt = TRUE]
    IN  IF ~a.dataPassiveConn
        THEN IF connOk
             THEN [DataStop(a) EXCEPT !.data.conn = TRUE, !.dataTx = <<>>, !.rc = 1]
             ELSE [DataStop(a) EXCEPT !.rc = -1]
        ELSE IF ~a.data.conn
             THEN IF a.dataBacklog
                  THEN [DataStop(a) EXCEPT !.data.conn = TRUE, !.dataTx = <<>>,
                                           !.dataBacklog = FALSE, !.rc = 1]
                  ELSE [a EXCEPT !.rc = 0]
             ELSE [a EXCEPT !.rc = 1]

\* allocateBuffer(desiredBytes): maxBlock is ESP.getMaxFreeBlockSize() / 2 as a
\* uint16_t; the value returned is fileBufferSize, left in rc
allocateBuffer(w, desiredBytes, maxFree, garbage) ==
    LET maxBlock == (maxFree \div 2) % 65536
        desired == Min(desiredBytes % 65536, maxBlock)
        a == IF w.fileBuffer = "NULL" /\ desired > 0
             THEN [w EXCEPT !.fileBuffer = "alloc", !.fileBufferSize = desired]
             ELSE w
    IN  [a EXCEPT !.rc = IF a.fileBufferSize = Undef THEN garbage ELSE a.fileBufferSize,
                  !.hist.alloc = IF a.fileBuffer = "NULL" THEN "none" ELSE "got"]

\* a doRetrieve() that reads every chunk from the start of the file
doRetrieveRewind(w) ==
    IF ~w.data.conn \/ w.bytesTransfered >= FileSize(w)
    THEN [w EXCEPT !.more = FALSE]
    ELSE LET nb == Min(FileSize(w) - w.bytesTransfered, w.fileBufferSize)
             chunk == SubSeq(w.fs[w.file.path].bytes, 1, nb)
         IN  IF w.fileBuffer = "NULL"
             THEN [w EXCEPT !.hung = TRUE]
             ELSE IF nb > 0
             THEN [w EXCEPT !.dataTx = @ \o chunk, !.file.pos = @ + nb,
                            !.bytesTransfered = @ + nb, !.hist.moved = nb,
                            !.more = TRUE]
             ELSE [w EXCEPT !.more = FALSE]

\* doRetrieve(): more = the transfer goes on
doRetrieve(w) ==
    IF ~w.data.conn \/ w.bytesTransfered >= FileSize(w)
    THEN [w EXCEPT !.more = FALSE]
    ELSE LET want == Min(FileSize(w) - w.bytesTransfered, w.fileBufferSize)
             left == FileSize(w) - w.file.pos
             nb == IF want < 0 \/ left < 0 THEN 0 ELSE Min(want, left)
             chunk == SubSeq(w.fs[w.file.path].bytes, w.file.pos + 1, w.file.pos + nb)
         IN  IF w.fileBuffer = "NULL"
             THEN [w EXCEPT !.hung = TRUE]    \* file.readBytes(NULL, nb)
             ELSE IF nb > 0
             THEN [w EXCEPT !.dataTx = @ \o chunk, !.file.pos = @ + nb,
                            !.bytesTransfered = @ + nb, !.hist.moved = nb,
                            !.more = TRUE]
             ELSE [w EXCEPT !.more = FALSE]

\* a doStore() that reports done as soon as the peer is gone
doStoreEager(w) ==
    LET navail == Len(w.dataRx)
        n == Min(navail, w.fileBufferSize)
        chunk == SubSeq(w.dataRx, 1, n)
        writable == w.file.open /\ w.file.mode = "w" /\ w.file.path \in FsPaths
        a == IF navail > 0
             THEN [w EXCEPT !.dataRx = SubSeq(@, n + 1, Len(@)),
                            !.fs = IF writable
                                   THEN [@ EXCEPT ![w.file.path].bytes = @ \o chunk]
                                   ELSE @,
                            !.hist.moved = n]
             ELSE w
    IN  IF navail > 0 /\ w.fileBuffer = "NULL"
        THEN [w EXCEPT !.hung = TRUE]
        ELSE [a EXCEPT !.more = a.data.conn]

\* doStore()
doStore(w) ==
    LET navail == Len(w.dataRx)
        n == Min(navail, w.fileBufferSize)
        chunk == SubSeq(w.dataRx, 1, n)
        writable == w.file.open /\ w.file.mode = "w" /\ w.file.path \in FsPaths
        a == IF navail > 0
             THEN [w EXCEPT !.dataRx = SubSeq(@, n + 1, Len(@)),
                            !.fs = IF writable
                                   THEN [@ EXCEPT ![w.file.path].bytes = @ \o chunk]
                                   ELSE @,
                            !.hist.moved = n]
             ELSE w
        got == IF navail > 0 THEN n ELSE navail
    IN  IF navail > 0 /\ w.fileBuffer = "NULL"
        THEN [w EXCEPT !.hung = TRUE]         \* data.read(NULL, navail)
        ELSE [a EXCEPT !.more = ~(~a.data.conn /\ got <= 0)]

-----------------------------------------------------------------------------
(* Filesystem calls *)

\* THEFS.open(path, mode): a directory opens as a File that is no file (LittleFS);
\* "w" creates the file or truncates it
FsOpen(w, path, mode) ==
    LET kind == FsKind(w.fs, path)
        h == [open |-> TRUE, path |-> path, mode |-> mode, dir |-> kind = "dir",
              pos |-> 0]
    IN  IF mode = "r"
        THEN [w EXCEPT !.file = IF kind = "none" THEN NoFile ELSE h]
        ELSE IF kind = "dir" \/ path \notin FsPaths
             THEN [w EXCEPT !.file = NoFile]
             ELSE [w EXCEPT !.file = h, !.fs[path] = FileEntry(<<>>)]

\* the entries openDir(path) walks through
DirEntries(f, path) == {p \in FsPaths : path = SLASH /\ f[p].kind /= "none"}

\* the order dir.next() yields them in
DirOrder == <<pathA, pathB, pathD, pathDash, pathLog>>
RECURSIVE Listing(_, _, _)
Listing(f, path, i) ==
    IF i > Len(DirOrder) THEN <<>>
    ELSE (IF DirOrder[i] \in DirEntries(f, path) THEN <<DirOrder[i]>> ELSE <<>>) \o Listing(f, path, i + 1)

\* THEFS.remove(path) / THEFS.rmdir(path): true when something was removed
FsRemovable(f, path) == path \in FsPaths /\ f[path].kind /= "none"

Digits == <<"0", "1", "2", "3", "4", "5", "6", "7", "8", "9">>
IsDigit(c) == \E i \in 1..10 : Digits[i] = c
DigitVal(c) == (CHOOSE i \in 1..10 : Digits[i] = c) - 1

\* "%d" of a small count
Decimal(n) == IF n < 10 THEN <<Digits[n + 1]>> ELSE <<Digits[(n \div 10) + 1], Digits[(n % 10) + 1]>>

RECURSIVE AtoiDigits(_, _)
AtoiDigits(s, acc) ==
    IF s /= <<>> /\ IsDigit(Head(s)) THEN AtoiDigits(Tail(s), acc * 10 + DigitVal(Head(s)))
    ELSE acc

\* atoi(p): leading white space, an optional sign, then digits; 0 without digits
Atoi(s) ==
    LET t == TrimLeft(s)
    IN  IF t /= <<>> /\ t[1] = "-" THEN 0 - AtoiDigits(Tail(t), 0)
        ELSE IF t /= <<>> /\ t[1] = "+" THEN AtoiDigits(Tail(t), 0)
        ELSE AtoiDigits(t, 0)

\* the PORT parameter loop: tmp[parsecount++] = atoi(p); p = strchr(p, ',');
\* if (NULL == p || *(++p) == '\0') break;   (tmp is uint8_t[6])
RECURSIVE ParsePortLoop(_)
ParsePortLoop(s0) ==
    LET Body(s) ==
            IF Len(s.tmp) >= 6 THEN s.tmp
            ELSE LET got == Append(s.tmp, Atoi(s.p) % 256)
                     comma == IndexOf(s.p, ",")
                 IN  IF comma < 0 \/ SubstringFrom(s.p, comma + 1) = <<>> THEN got
                     ELSE ParsePortLoop([p |-> SubstringFrom(s.p, comma + 1), tmp |-> got])
    IN  Strict(Body, s0)

\* (FTPServer.cpp calls FTPCommon::parseDataIpPort, which the sources do not
\* contain; the loop of espFtpServer.cpp is taken for both)
ParsePort(param) ==
    LET tmp == Strict(ParsePortLoop, [p |-> param, tmp |-> <<>>])
    IN  IF Len(tmp) < 6 THEN [ok |-> FALSE, ip |-> <<>>, port |-> 0]
        ELSE [ok |-> TRUE, ip |-> SubSeq(tmp, 1, 4), port |-> tmp[5] * 256 + tmp[6]]

-----------------------------------------------------------------------------
(* The command handlers of processCommand() *)

Mark(w, name) ==
    [w EXCEPT !.hist.handler = name, !.hist.cmd = w.command, !.hist.calls = @ + 1,
              !.rc = 1]

IsEsp(w) == w.variant = "espFtpServer"

hUSER(w) ==
    IF w.FTP_USER /= <<>> /\ w.FTP_USER /= w.parameters
    THEN [Send(w, 430, "User not found.", <<>>) EXCEPT !.command = NoCmd, !.rc = 0]
    ELSE w

\* a PASS handler that takes any password
hPASSAny(w) == w

hPASS(w) ==
    IF w.FTP_PASS /= <<>> /\ w.FTP_PASS /= w.parameters
    THEN [Send(w, 430, "Password invalid.", <<>>) EXCEPT !.command = NoCmd, !.rc = 0]
    ELSE w

hQUIT(w) == [disconnectClient(w, TRUE) EXCEPT !.rc = -1]

hNOOPHome(w) == Send([w EXCEPT !.cwd = <<"/">>], 200, "Zzz...", <<>>)

hNOOP(w) == Send(w, 200, "Zzz...", <<>>)

\* cwd = getPathName("", false)
hCDUP(w) ==
    IF getPathName(w.cwd, <<>>, FALSE) = Hang THEN [w EXCEPT !.hung = TRUE]
    ELSE Send([w EXCEPT !.cwd = getPathName(w.cwd, <<>>, FALSE)],
              250, "Directory successfully changed.", <<>>)

hCWD(w, path) ==
    IF w.parameters = <<".">> THEN [w EXCEPT !.command = cmdPWD, !.rc = 0]
    ELSE IF w.parameters = <<".", ".">> THEN [w EXCEPT !.command = cmdCDUP, !.rc = 0]
    ELSE LET a == FsOpen(w, path, "r")
         IN  FileClose(IF a.file.open /\ a.file.dir
                       THEN Send([a EXCEPT !.cwd = path],
                                 250, "Directory successfully changed.", <<>>)
                       ELSE Send(a, 550, "Failed to change directory.", <<>>))

hPWD(w) == Send(w, 257, "is the current directory.", w.cwd)

hMODE(w) ==
    IF w.parameters = <<"S">> THEN Send(w, 504, "Only S(tream) mode is suported", <<>>)
    ELSE Send(w, 200, "Mode set to S.", <<>>)

hPASV(w) ==
    Send([DataStop(w) EXCEPT !.dataPort = FTP_DATA_PORT_PASV, !.dataPassiveConn = TRUE],
         227, "Entering Passive Mode", <<>>)

hPORT(w) ==
    LET a == IF w.data.conn THEN DataStop(w) ELSE w
        r == Strict(ParsePort, a.parameters)
    IN  IF r.ok
        THEN Send([a EXCEPT !.dataIP = r.ip, !.dataPort = r.port,
                            !.dataPassiveConn = FALSE],
                  200, "PORT command successful", <<>>)
        ELSE Send(a, 501, "Can't interpret parameters", <<>>)

hSTRU(w) ==
    IF w.parameters = <<"F">> THEN Send(w, 504, "Only F(ile) is suported", <<>>)
    ELSE Send(w, 200, "Structure set to F.", <<>>)

hTYPE(w) ==
    IF w.parameters = <<"A">> THEN Send(w, 200, "TYPE is now ASII.", <<>>)
    ELSE IF w.parameters = <<"I">> THEN Send(w, 200, "TYPE is now 8-bit Binary.", <<>>)
    ELSE Send(w, 504, "Unrecognised TYPE.", <<>>)

hABOR(w) == Send(abortTransfer(w), 226, "Data connection closed", <<>>)

hDELE(w, path) ==
    IF w.parameters = <<>> THEN Send(w, 501, "No file name", <<>>)
    ELSE IF ~FsExists(w.fs, path)
    THEN Send(w, 550, "Delete operation failed, file not found.", path)
    ELSE IF FsRemovable(w.fs, path)
    THEN Send([w EXCEPT !.fs[path] = NoEntry], 250, "Delete operation successful.", <<>>)
    ELSE Send(w, 450, "Delete operation failed.", <<>>)

\* LIST, MLSD, NLST; FTPServer.cpp cuts the path at its last '-'; one record
\* (here: the entry it describes) is printed to the data socket per entry
hLIST(w, path, connOk) ==
    LET c == dataConnect(w, connOk)
        dashPos == LastIndexOf(path, "-")
        dir == IF ~IsEsp(w) /\ dashPos > 0 THEN RemoveFrom(path, dashPos) ELSE path
        records == Listing(c.fs, dir, 1)
        n == Len(records)
        \* file = dir.openFile("r"); ...; file.close() for each entry
        walked == IF n > 0 /\ (~IsEsp(c) \/ c.command = cmdMLSD) THEN FileClose(c) ELSE c
        printed == [walked EXCEPT !.dataTx = @ \o records]
        opts == IF c.command = cmdMLSD
                THEN Send(Send(printed, 150, "Accepted data connection", <<>>),
                          226, "-options: -a -l", <<>>)
                ELSE Send(printed, 150, "Accepted data connection", <<>>)
        d == IF c.rc < 0 THEN [Send(c, 425, "No data connection", <<>>) EXCEPT !.rc = 1]
             ELSE IF c.rc > 0
             THEN Send(opts, 226, "matches total", Decimal(n))
             ELSE c
    IN  DataStop(d)

\* the size allocateBuffer() is asked for
RetrBufferSize(w) == IF IsEsp(w) THEN Min(FileSize(w), 32768) ELSE TCP_MSS
StorBufferSize(w) == IF IsEsp(w) THEN 2048 ELSE TCP_MSS

\* the end of RETR and STOR once the data connection is there
StartTransfer(w, state, desired, e) ==
    LET d == [w EXCEPT !.transferState = state, !.bytesTransfered = 0]
        al == allocateBuffer(d, desired, e.maxFree, e.garbage)
    IN  IF al.rc /= 0
        THEN [Send(al, 150, IF state = "tRetrieve" THEN "bytes to download"
                                                   ELSE "Connected to port", <<>>)
              EXCEPT !.rc = 1]
        ELSE [Send(closeTransfer(al), 451, "Internal error. Not enough memory.", <<>>)
              EXCEPT !.rc = 1]

hRETR(w, path, e) ==
    IF w.parameters = <<>> THEN Send(w, 501, "No file name", <<>>)
    ELSE LET a == IF ~w.file.open THEN FsOpen(w, path, "r") ELSE w
         IN  IF ~a.file.open THEN Send(a, 550, "File not found.", a.parameters)
             ELSE IF a.file.dir THEN Send(a, 450, "Cannot open file", a.parameters)
             ELSE LET c == dataConnect(a, e.connOk)
                  IN  IF c.rc < 0
                      THEN [Send(c, 425, "No data connection", <<>>) EXCEPT !.rc = 1]
                      ELSE IF c.rc > 0
                      THEN StartTransfer(c, "tRetrieve", RetrBufferSize(c), e)
                      ELSE c

hSTOR(w, path, e) ==
    IF w.parameters = <<>> THEN Send(w, 501, "No file name.", <<>>)
    ELSE LET a == IF ~w.file.open THEN FsOpen(w, path, "w") ELSE w
         IN  IF ~a.file.open THEN Send(a, 451, "Cannot open/create", path)
             ELSE LET c == dataConnect(a, e.connOk)
                  IN  IF c.rc < 0
                      THEN [FileClose(Send(c, 425, "No data connection", <<>>))
                            EXCEPT !.rc = 1]
                      ELSE IF c.rc > 0
                      THEN StartTransfer(c, "tStore", StorBufferSize(c), e)
                      ELSE c

hMKD(w, path) ==
    IF path \in FsPaths /\ w.fs[path].kind = "none"
    THEN Send([w EXCEPT !.fs[path] = DirEntry], 257, "created.", path)
    ELSE Send(w, 550, "Create directory operation failed.", <<>>)

\* rmdir() is not asked whether it removed anything
hRMD(w, path) ==
    IF DirEntries(w.fs, path) /= {}
    THEN Send(w, 550, "Remove directory operation failed, directory is not empty.", <<>>)
    ELSE Send(IF FsRemovable(w.fs, path) THEN [w EXCEPT !.fs[path] = NoEntry] ELSE w,
              250, "Remove directory operation successful.", <<>>)

hRNFR(w, path) ==
    IF w.parameters = <<>> THEN Send(w, 501, "No file name", <<>>)
    ELSE IF ~FsExists(w.fs, path) THEN Send(w, 550, "File not found.", path)
    ELSE [Send(w, 350, "RNFR accepted", path) EXCEPT !.rnFrom = path]

\* an RNTO that keeps the rename source when the target exists
hRNTOKeep(w, path) ==
    IF w.rnFrom /= <<>> /\ w.parameters /= <<>> /\ FsExists(w.fs, path)
    THEN Send(w, 553, "already exists.", w.parameters)
    ELSE LET a == IF w.rnFrom = <<>> THEN Send(w, 503, "Need RNFR before RNTO", <<>>)
                  ELSE IF w.parameters = <<>> THEN Send(w, 501, "No file name", <<>>)
                  ELSE IF FsRemovable(w.fs, w.rnFrom) /\ path \in FsPaths
                  THEN Send([w EXCEPT !.fs[path] = w.fs[w.rnFrom],
                                      !.fs[w.rnFrom] = NoEntry],
                            250, "File successfully renamed or moved", <<>>)
                  ELSE Send(w, 451, "Rename/move failure.", <<>>)
         IN  [a EXCEPT !.rnFrom = <<>>]

hRNTO(w, path) ==
    LET a == IF w.rnFrom = <<>> THEN Send(w, 503, "Need RNFR before RNTO", <<>>)
             ELSE IF w.parameters = <<>> THEN Send(w, 501, "No file name", <<>>)
             ELSE IF FsExists(w.fs, path)
             THEN Send(w, 553, "already exists.", w.parameters)
             ELSE IF FsRemovable(w.fs, w.rnFrom) /\ path \in FsPaths
             THEN Send([w EXCEPT !.fs[path] = w.fs[w.rnFrom], !.fs[w.rnFrom] = NoEntry],
                       250, "File successfully renamed or moved", <<>>)
             ELSE Send(w, 451, "Rename/move failure.", <<>>)
    IN  [a EXCEPT !.rnFrom = <<>>]

\* FTPServer.cpp clears the command and returns 0, espFtpServer.cpp returns 1
hFEAT(w) ==
    LET a == Send(w, 211, "Features", <<>>)
    IN  IF IsEsp(w) THEN a ELSE [a EXCEPT !.command = NoCmd, !.rc = 0]

hMDTM(w, path) ==
    LET a == FsOpen(w, path, "r")
    IN  FileClose(IF ~a.file.open \/ a.parameters = <<>>
                  THEN Send(a, 550, "Unable to retrieve time", <<>>)
                  ELSE Send(a, 213, "time", <<>>))

hSIZE(w, path) ==
    LET a == FsOpen(w, path, "r")
    IN  FileClose(IF ~a.file.open \/ a.parameters = <<>>
                  THEN Send(a, 450, "Cannot open file.", <<>>)
                  ELSE Send(a, 213, "size", Decimal(FileSize(a))))

hSITE(w) == Send(w, 502, "SITE command not implemented", <<>>)

hSYST(w) == Send(w, 215, "UNIX Type: L8", <<>>)

hUnknown(w) == Send(w, 500, "unknown command", w.cmdString)

-----------------------------------------------------------------------------
(* processCommand() *)

\* the else-if chain on command
Dispatch(w, path, e) ==
    LET c == w.command
    IN  CASE c = cmdUSER -> hUSER(Mark(w, "USER"))
          [] c = cmdPASS -> hPASS(Mark(w, "PASS"))
          [] c = cmdQUIT -> hQUIT(Mark(w, "QUIT"))
          [] c = cmdNOOP -> hNOOP(Mark(w, "NOOP"))
          [] c = cmdCDUP -> hCDUP(Mark(w, "CDUP"))
          [] c = cmdCWD  -> hCWD(Mark(w, "CWD"), path)
          [] c = cmdPWD  -> hPWD(Mark(w, "PWD"))
          [] c = cmdMODE -> hMODE(Mark(w, "MODE"))
          [] c = cmdPASV -> hPASV(Mark(w, "PASV"))
          [] c = cmdPORT -> hPORT(Mark(w, "PORT"))
          [] c = cmdSTRU -> hSTRU(Mark(w, "STRU"))
          [] c = cmdTYPE -> hTYPE(Mark(w, "TYPE"))
          [] c = cmdABOR -> hABOR(Mark(w, "ABOR"))
          [] c = cmdDELE -> hDELE(Mark(w, "DELE"), path)
          [] c \in {cmdLIST, cmdMLSD, cmdNLST} -> hLIST(Mark(w, "LIST"), path, e.connOk)
          [] c = cmdRETR -> hRETR(Mark(w, "RETR"), path, e)
          [] c = cmdSTOR -> hSTOR(Mark(w, "STOR"), path, e)
          [] c = cmdMKD  -> hMKD(Mark(w, "MKD"), path)
          [] c = cmdRMD  -> hRMD(Mark(w, "RMD"), path)
          [] c = cmdRNFR -> hRNFR(Mark(w, "RNFR"), path)
          [] c = cmdRNTO -> hRNTO(Mark(w, "RNTO"), path)
          [] c = cmdFEAT -> hFEAT(Mark(w, "FEAT"))
          [] c = cmdMDTM -> hMDTM(Mark(w, "MDTM"), path)
          [] c = cmdSIZE -> hSIZE(Mark(w, "SIZE"), path)
          [] c = cmdSITE -> hSITE(Mark(w, "SITE"))
          [] c = cmdSYST -> hSYST(Mark(w, "SYST"))
          [] OTHER -> hUnknown(Mark(w, "unknown"))

\* String path = getFileName(parameters, true); then the handlers
processCommand(w, e) ==
    LET path == getFileName(w.cwd, w.parameters, TRUE)
    IN  IF path = Hang THEN [w EXCEPT !.hung = TRUE]
        ELSE LET r == Dispatch(w, path, e) IN [r EXCEPT !.hist.rc = r.rc]

-----------------------------------------------------------------------------
(* handleFTP() *)

\* a gate that guards the UserId phase only
LoginGateOpen(w) ==
    /\ IsEsp(w) \/ w.command /= cmdFEAT
    /\ w.cmdState = "cUserId" /\ w.command /= cmdUSER

\* the login gate: must the command be refused with 530?
LoginGate(w) ==
    /\ IsEsp(w) \/ w.command /= cmdFEAT
    /\ \/ w.cmdState = "cUserId" /\ w.command /= cmdUSER
       \/ w.cmdState = "cPassword" /\ w.command /= cmdPASS

\* a login that is over with the user name
CommandDoneUser(w) ==
    LET a == [w EXCEPT !.command = NoCmd]
    IN  IF a.cmdState \in {"cUserId", "cPassword"} THEN [a EXCEPT !.cmdState = "cLoginOk"]
        ELSE TimeoutReset(a, "session")

\* if (rc > 0): the command is done, the login state moves on
CommandDone(w) ==
    LET a == [w EXCEPT !.command = NoCmd]
    IN  IF a.cmdState = "cUserId"
        THEN IF a.FTP_PASS /= <<>>
             THEN [Send(TimeoutReset(a, "login"), 331, "Please specify the password.", <<>>)
                   EXCEPT !.cmdState = "cPassword"]
             ELSE [a EXCEPT !.cmdState = "cLoginOk"]
        ELSE IF a.cmdState = "cPassword"
        THEN [a EXCEPT !.cmdState = "cLoginOk"]
        ELSE TimeoutReset(a, "session")

\* the transfer step of a pump
\* a transfer step whose progress extends the deadline
TransferStepRefresh(w) ==
    IF w.transferState = "tRetrieve"
    THEN LET r == doRetrieve(w)
         IN  IF r.hung THEN r
             ELSE IF r.more THEN TimeoutReset(r, "session")
             ELSE [closeTransfer(r) EXCEPT !.transferState = "tIdle"]
    ELSE IF w.transferState = "tStore"
    THEN LET r == doStore(w)
         IN  IF r.hung THEN r
             ELSE IF r.more THEN TimeoutReset(r, "session")
             ELSE [closeTransfer(r) EXCEPT !.transferState = "tIdle"]
    ELSE w

TransferStep(w) ==
    IF w.transferState = "tRetrieve"
    THEN LET r == doRetrieve(w)
         IN  IF r.hung \/ r.more THEN r
             ELSE [closeTransfer(r) EXCEPT !.transferState = "tIdle"]
    ELSE IF w.transferState = "tStore"
    THEN LET r == doStore(w)
         IN  IF r.hung \/ r.more THEN r
             ELSE [closeTransfer(r) EXCEPT !.transferState = "tIdle"]
    ELSE w

\* general connection handling without the deadline
GeneralNoTimeout(w) ==
    IF w.hung \/ StateNo(w.cmdState) < StateNo("cCheck") THEN w
    ELSE TransferStep(IF ~w.control.conn THEN [w EXCEPT !.cmdState = "cInit"] ELSE w)

\* general connection handling: if (cmdState >= cCheck) ...
General(w) ==
    IF w.hung \/ StateNo(w.cmdState) < StateNo("cCheck") THEN w
    ELSE LET a == IF ~w.control.conn THEN [w EXCEPT !.cmdState = "cInit"] ELSE w
             b == IF a.expired
                  THEN [Send(a, 530, "Timeout.", <<>>) EXCEPT !.cmdState = "cInit"]
                  ELSE a
         IN  TransferStep(b)

stInit(w) ==
    LET a == IF w.control.conn THEN disconnectClient(abortTransfer(w), FALSE) ELSE w
    IN  [iniVariables(a) EXCEPT !.cmdState = "cWait"]

stWait(w) ==
    IF w.backlog /= <<>>
    THEN [TimeoutReset(w, "login") EXCEPT
              !.control = [conn |-> TRUE, id |-> Head(w.backlog)],
              !.ctrlIn = <<>>, !.backlog = Tail(@),
              !.cmdState = "cCheck", !.hist.accepted = TRUE]
    ELSE w

\* a greeting that asks for no credentials
stCheckSkip(w) ==
    IF w.control.conn
    THEN [Send(w, 220, "(espFTP)", <<>>) EXCEPT !.cmdState = "cLoginOk"]
    ELSE w

stCheck(w) ==
    IF w.control.conn
    THEN [Send(w, 220, "(espFTP)", <<>>) EXCEPT
              !.cmdState = IF w.FTP_USER /= <<>> THEN "cUserId"
                           ELSE IF w.FTP_PASS /= <<>> THEN "cPassword"
                           ELSE "cLoginOk"]
    ELSE w

stLoginOk(w) ==
    [TimeoutReset(Send(w, 230, "Login successful.", <<>>), "session")
     EXCEPT !.cmdState = "cProcess"]

\* the refusal before login: the pump returns at once
Refuse(w) ==
    [Send(w, 530, "Please login with USER and PASS.", <<>>)
     EXCEPT !.command = NoCmd, !.hist.gated = TRUE, !.hist.cmd = w.command]

\* the states that read commands
stCommand(w, e) ==
    LET r == readChar(w)
    IN  IF r.rc <= 0 THEN General(r)
        ELSE IF LoginGate(r) THEN Refuse(r)
        ELSE LET p == processCommand(r, e)
             IN  IF p.hung THEN p
                 ELSE IF p.rc < 0 THEN General([p EXCEPT !.cmdState = "cInit"])
                 ELSE IF p.rc > 0 THEN General(CommandDone(p))
                 ELSE General(p)

\* a pump that takes a waiting connection in whatever state it is
handleFTPGreedy(w, e) ==
    CASE w.cmdState = "cInit" -> General(stInit(w))
      [] w.backlog /= <<>> -> General(stWait(w))
      [] w.cmdState = "cWait" -> General(stWait(w))
      [] w.cmdState = "cCheck" -> General(stCheck(w))
      [] w.cmdState = "cLoginOk" -> General(stLoginOk(w))
      [] OTHER -> stCommand(w, e)

handleFTP(w, e) ==
    CASE w.cmdState = "cInit" -> General(stInit(w))
      [] w.cmdState = "cWait" -> General(stWait(w))
      [] w.cmdState = "cCheck" -> General(stCheck(w))
      [] w.cmdState = "cLoginOk" -> General(stLoginOk(w))
      [] OTHER -> stCommand(w, e)

-----------------------------------------------------------------------------
(* The peers *)

SP == <<" ">>
userOk == <<"u">>
passOk == <<"p">>
wrong == <<"x">>

portOk == <<"1", ",", "2", ",", "3", ",", "4", ",", "5", ",", "6">>

\* one character more than a command line may hold
Filler == [i \in 1..(FTP_CMD_SIZE + 1) |-> "X"]

\* the command lines the clients send, by scenario
LoginLines ==
    {cmdUSER \o SP \o userOk, cmdUSER \o SP \o wrong,
     cmdPASS \o SP \o passOk, cmdPASS \o SP \o wrong,
     cmdFEAT, <<"n", "o", "o", "p">>, cmdQUIT, cmdSTOR \o SP \o nameB,
     cmdRETR \o <<"X">> \o SP \o nameA,
     Filler, Filler \o cmdQUIT}

TransferLines ==
    {cmdRETR \o SP \o nameA, cmdRETR \o SP \o nameN, cmdSTOR \o SP \o nameB,
     cmdABOR, cmdQUIT, cmdPORT \o SP \o portOk}

\* a client that stores a file and reads it back
StoreLines == {cmdSTOR \o SP \o nameB, cmdRETR \o SP \o nameB}

\* a client that does not wait for replies: two commands in one write,
\* commands that are handed on to another (CWD . and CWD ..) next to the
\* commands they are handed on to, a change of directory, downloads
PipelineLines ==
    {cmdNOOP \o <<"\n">> \o cmdSYST, cmdCWD \o SP \o <<".">>,
     cmdRETR \o SP \o nameA,
     cmdCWD \o SP \o <<".", ".">>, cmdCDUP, cmdPWD, cmdCWD \o SP \o nameD}

\* PORT parameters: too few fields, a field that is no number, a field above
\* 255
\* a client that sets the transfer parameters: supported and unsupported
\* values, PORT well and ill formed
ParamLines ==
    {cmdMODE \o SP \o <<"S">>, cmdMODE \o SP \o <<"B">>,
     cmdSTRU \o SP \o <<"F">>, cmdSTRU \o SP \o <<"R">>,
     cmdTYPE \o SP \o <<"I">>, cmdTYPE \o SP \o <<"X">>,
     cmdPORT \o SP \o portOk,
     cmdPORT \o SP \o <<"1", ",", "2", ",", "3">>,
     cmdPORT \o SP \o <<"1", ",", "2", ",", "3", ",", "4", ",", "5", ",", "x">>,
     cmdPORT \o SP \o <<"1", ",", "2", ",", "3", ",", "4", ",", "5", ",", "3", "0", "0">>}

\* a client that renames: sources that exist and do not, targets that are
\* free, taken, missing and outside the filesystem
RenameLines ==
    {cmdRNFR \o SP \o nameA, cmdRNFR \o SP \o nameN,
     cmdRNTO \o SP \o nameB, cmdRNTO \o SP \o nameD, cmdRNTO,
     cmdRNTO \o SP \o nameN}

\* a client that makes a directory named "-", enters it and lists: the
\* working directory, an empty directory, in the three formats
ListLines ==
    {cmdMKD \o SP \o <<"-">>, cmdCWD \o SP \o <<"-">>, cmdLIST, cmdNLST, cmdMLSD,
     cmdLIST \o SP \o nameD}

\* a client that works in a directory with a longer name and names another
\* directory with a separator at the end
DeepLines ==
    {cmdMKD \o SP \o nameLog, cmdCWD \o SP \o nameLog, cmdNOOP,
     cmdCWD \o SP \o <<"/", "d", "/">>}

\* a client that comes back after its session was cut
ResumeLines == {cmdRETR \o SP \o nameA, cmdRETR \o SP \o nameN, cmdABOR}

Lines ==
    CASE scenario = "login" -> LoginLines
      [] scenario = "resume" -> ResumeLines
      [] scenario = "store" -> StoreLines
      [] scenario = "rename" -> RenameLines
      [] scenario = "params" -> ParamLines
      [] scenario = "list" -> ListLines
      [] scenario = "deep" -> DeepLines
      [] scenario = "pipeline" -> PipelineLines
      [] OTHER -> TransferLines

\* what ESP.getMaxFreeBlockSize() may return: no room, room for a buffer of
\* one byte, room for a buffer of two
HeapSizes == {0, 2, 4}

\* what an uninitialised fileBufferSize may hold
Garbage == {0, 2}

Terminators(s) == Cardinality({i \in 1..Len(s) : s[i] = "\n"})

Quiet == out' = <<>> /\ hist' = NoHist

\* a client connects to the control port
ClientConnect ==
    /\ ~hung /\ backlog = <<>>
    /\ nextId <= (IF scenario \in {"transfer", "store", "pipeline", "params", "list", "deep"} THEN 1 ELSE MaxConn)
    /\ backlog' = Append(backlog, nextId)
    /\ nextId' = nextId + 1
    /\ Quiet
    /\ UNCHANGED <<cfgVars, srvVars, control, ctrlIn, data, dataRx, dataTx, dataBacklog,
                   fs, expired, timeoutKind, hung>>

\* the client of the "store" scenario sends its next command when the one
\* before is done and its transfer is over
Patient ==
    scenario = "store" => ctrlIn = <<>> /\ command = NoCmd /\ transferState = "tIdle"

\* the client sends one command line
ClientSend ==
    /\ ~hung /\ control.conn /\ Terminators(ctrlIn) < MaxPending
    /\ Patient
    /\ \E l \in Lines : ctrlIn' = ctrlIn \o l \o <<"\n">>
    /\ Quiet
    /\ UNCHANGED <<cfgVars, srvVars, control, data, dataRx, dataTx, backlog, dataBacklog,
                   nextId, fs, expired, timeoutKind, hung>>

\* the client closes (or loses) the control connection
ClientClose ==
    /\ ~hung /\ control.conn
    /\ control' = [control EXCEPT !.conn = FALSE]
    /\ ctrlIn' = <<>>
    /\ Quiet
    /\ UNCHANGED <<cfgVars, srvVars, data, dataRx, dataTx, backlog, dataBacklog,
                   nextId, fs, expired, timeoutKind, hung>>

\* the armed deadline passes
TimePasses ==
    /\ ~hung /\ timeoutKind /= "never" /\ ~expired
    /\ StateNo(cmdState) >= StateNo("cCheck")
    /\ expired' = TRUE
    /\ Quiet
    /\ UNCHANGED <<cfgVars, srvVars, netVars, fs, timeoutKind, hung>>

\* a peer connects to the passive data port
DataPeerConnect ==
    /\ ~hung /\ cmdState = "cProcess" /\ dataPassiveConn /\ ~dataBacklog /\ ~data.conn
    /\ dataBacklog' = TRUE
    /\ Quiet
    /\ UNCHANGED <<cfgVars, srvVars, control, ctrlIn, data, dataRx, dataTx, backlog,
                   nextId, fs, expired, timeoutKind, hung>>

\* the data peer sends the next byte of its payload 1, 2, ...
DataPeerSend ==
    /\ ~hung /\ data.conn /\ transferState = "tStore"
    /\ Len(dataRx) + FileSize(Cur) < MaxData
    /\ dataRx' = Append(dataRx, Len(dataRx) + FileSize(Cur) + 1)
    /\ Quiet
    /\ UNCHANGED <<cfgVars, srvVars, control, ctrlIn, data, dataTx, backlog, dataBacklog,
                   nextId, fs, expired, timeoutKind, hung>>

\* the data peer closes; what it sent stays readable
DataPeerClose ==
    /\ ~hung /\ data.conn
    /\ data' = [data EXCEPT !.conn = FALSE]
    /\ Quiet
    /\ UNCHANGED <<cfgVars, srvVars, control, ctrlIn, dataRx, dataTx, backlog, dataBacklog,
                   nextId, fs, expired, timeoutKind, hung>>

-----------------------------------------------------------------------------
(* readChar() on a byte stream that reaches the control socket in pieces *)

\* the byte streams: CR LF and lower case, a backslash, terminators with
\* nothing or blanks before them, blanks around token and parameter, a
\* line that is too long
Streams ==
    {<<"n", "o", "o", "p", "\r", "\n", "s", "y", "s", "t", "\n">>,
     <<"c", "w", "d", " ", "\\", "d", "\n", "\\", "\n">>,
     <<"\n", "\n", " ", "\r", "q", "\n", "\n">>,
     <<" ", "r", "e", "t", "r", " ", " ", "a", " ", "\n", "x">>,
     Filler \o cmdQUIT \o <<"\n">>}

\* the next bytes of the stream arrive, as many as the network pleases
Deliver ==
    /\ scenario = "fragment" /\ wire.rest /= <<>>
    /\ \E n \in 1..Len(wire.rest) :
          /\ ctrlIn' = ctrlIn \o SubSeq(wire.rest, 1, n)
          /\ wire' = [wire EXCEPT !.rest = SubSeq(@, n + 1, Len(@))]
    /\ Quiet
    /\ UNCHANGED <<variant, FTP_USER, FTP_PASS, scenario, client, clock, srvVars,
                   control, data, dataRx, dataTx, backlog, dataBacklog, nextId,
                   fs, expired, timeoutKind, hung>>

\* one call of readChar(); a command it returns is noted and done with
\* (command = 0), as handleFTP() does with a processed command
ReadChar ==
    /\ scenario = "fragment"
    /\ \E r \in {readChar(Cur)} :
          /\ cmdLine' = r.cmdLine /\ ctrlIn' = r.ctrlIn
          /\ cmdString' = r.cmdString /\ parameters' = r.parameters
          /\ command' = NoCmd
          /\ out' = r.out /\ hist' = [r.hist EXCEPT !.pump = TRUE, !.rc = r.rc]
          /\ wire' = IF r.rc > 0
                     THEN [wire EXCEPT !.decoded = Append(@, <<r.cmdString, r.parameters>>)]
                     ELSE wire
    /\ UNCHANGED <<variant, FTP_USER, FTP_PASS, scenario, client, clock,
                   cmdState, transferState, cwd, rnFrom, file, fileBuffer,
                   fileBufferSize, bytesTransfered, dataPassiveConn, dataIP, dataPort,
                   control, data, dataRx, dataTx, backlog, dataBacklog, nextId,
                   fs, expired, timeoutKind, hung>>

-----------------------------------------------------------------------------
(* The deadline of espFtpServer.cpp in milliseconds.  All values stay      *)
(* below 2^31, where the uint32_t arithmetic of the code and the           *)
(* (int32_t) difference of the expiry test are plain integer arithmetic.   *)

FTP_TIME_OUT == 5
\* uint16_t sTimeOut = FTP_TIME_OUT * 60
sTimeOut == FTP_TIME_OUT * 60

\* how many times the clock is seen to advance
MaxTicks == 3

\* millis() when the deadline is first set, and the steps it advances by
Boots == {0, 5000}
Ticks == {5000, 10000, 300000, 600000, 18000000}

\* no deadline set yet
NoClock == [millis |-> 0, millisEndConnection |-> 0, s |-> 0, at |-> 0, ticks |-> 0]

\* updateTimeout(s), called when millis() is now: the new millisEndConnection
updateTimeout(s, now) == s * 60000 + now

\* if (!((int32_t)(millisEndConnection - millis()) > 0)): the deadline passed
DeadlinePassed(c) == ~(c.millisEndConnection - c.millis > 0)

\* the server sets its deadline: updateTimeout(10) while the client logs in,
\* updateTimeout(sTimeOut) after a completed command
UpdateTimeout ==
    /\ scenario = "clock"
    /\ \E s \in {10, sTimeOut} :
          clock' = [clock EXCEPT !.millisEndConnection = updateTimeout(s, clock.millis),
                                 !.s = s, !.at = clock.millis]
    /\ UNCHANGED <<variant, FTP_USER, FTP_PASS, scenario, client, wire, srvVars, netVars,
                   fs, expired, timeoutKind, hung, out, hist>>

\* time goes by
Tick ==
    /\ scenario = "clock" /\ clock.s > 0 /\ clock.ticks < MaxTicks
    /\ \E d \in Ticks :
          clock' = [clock EXCEPT !.millis = @ + d, !.ticks = @ + 1]
    /\ UNCHANGED <<variant, FTP_USER, FTP_PASS, scenario, client, wire, srvVars, netVars,
                   fs, expired, timeoutKind, hung, out, hist>>

-----------------------------------------------------------------------------
(* The client engine.  Its header, FTPClient.h, declares the states, the   *)
(* status record and waitFor(); the implementation is not among the        *)
(* sources, so the steps below follow the description of the client        *)
(* session: each phase sends one command and waits for one reply with an   *)
(* expected code until a deadline.                                         *)

\* internalState, in the order of the session
ClientPhases ==
    <<"cConnect", "cGreet", "cUser", "cPassword", "cPassive", "cData", "cTransfer",
      "cFinish", "cQuit", "cIdle">>

\* the phases that wait for a reply
Waiting(st) ==
    st \in {"cGreet", "cUser", "cPassword", "cPassive", "cData", "cTransfer", "cFinish",
            "cQuit"}

\* the states in which the engine does nothing more
Terminal(st) == st \in {"cIdle", "cTimeout", "cError"}

\* the code each phase waits for: the greeting, then the replies to USER,
\* PASS, PASV, TYPE, RETR or STOR, the end of the transfer and QUIT
Expected(st) ==
    CASE st = "cGreet" -> 220 [] st = "cUser" -> 331 [] st = "cPassword" -> 230
      [] st = "cPassive" -> 227 [] st = "cData" -> 200 [] st = "cTransfer" -> 150
      [] st = "cFinish" -> 226 [] st = "cQuit" -> 221

NextPhase(st) == ClientPhases[(CHOOSE i \in 1..9 : ClientPhases[i] = st) + 1]

\* the FTPClient after construction: idle, nothing transferred yet
NoClient ==
    [ftpState |-> "cIdle", status |-> [result |-> "OK", code |-> 0, desc |-> ""],
     direction |-> "", blocking |-> FALSE, inCall |-> FALSE, started |-> FALSE,
     late |-> FALSE, inbox |-> <<>>]

\* what a server may answer: the code waited for, a refusal, a failure
ReplyCodes(st) == {Expected(st), 530, 421}
ReplyText(code) ==
    CASE code = 530 -> "Please login with USER and PASS."
      [] code = 421 -> "Service not available"
      [] OTHER -> "ok"

\* the wait ends in error: result ERROR, the code and the text kept
Fail(c, st, code, desc) ==
    [c EXCEPT !.ftpState = st, !.inbox = <<>>,
              !.status = [result |-> "ERROR", code |-> code, desc |-> desc]]

\* a wait that takes any reply for the one it waits for
waitForAny(c) ==
    IF c.inbox /= <<>>
    THEN [c EXCEPT !.ftpState = NextPhase(c.ftpState), !.inbox = <<>>, !.late = FALSE,
                   !.status.result = IF NextPhase(c.ftpState) = "cIdle"
                                     THEN "OK" ELSE "PROGRESS"]
    ELSE IF c.late THEN Fail(c, "cTimeout", 0, "timeout")
    ELSE c

\* waitFor(respCode, errorString, timeOut): the reply with the code waited
\* for moves on to the next phase with a new deadline, another reply or none
\* before the deadline ends the session
waitFor(c) ==
    IF c.inbox /= <<>>
    THEN IF c.inbox[1].code = Expected(c.ftpState)
         THEN [c EXCEPT !.ftpState = NextPhase(c.ftpState), !.inbox = <<>>,
                        !.late = FALSE,
                        !.status.result = IF NextPhase(c.ftpState) = "cIdle"
                                          THEN "OK" ELSE "PROGRESS"]
         ELSE Fail(c, "cError", c.inbox[1].code, c.inbox[1].msg)
    ELSE IF c.late THEN Fail(c, "cTimeout", 0, "timeout")
    ELSE c

\* FTPClient::handleFTP(): one step of the engine
clientHandleFTP(c, connected) ==
    IF Terminal(c.ftpState) THEN c
    ELSE IF c.ftpState = "cConnect"
    THEN IF connected THEN [c EXCEPT !.ftpState = "cGreet", !.late = FALSE]
         ELSE Fail(c, "cError", 0, "connection failed")
    ELSE waitFor(c)

\* transfer(localFileName, remoteFileName, direction): starts a session
ClientTransfer ==
    /\ scenario = "client" /\ ~client.inCall
    /\ \E d \in {"FTP_PUT", "FTP_GET"}, b \in BOOLEAN :
          client' = [NoClient EXCEPT !.ftpState = "cConnect", !.direction = d,
                                     !.blocking = b, !.inCall = b, !.started = TRUE,
                                     !.status.result = "PROGRESS"]
    /\ UNCHANGED <<variant, FTP_USER, FTP_PASS, scenario, clock, wire, srvVars, netVars,
                   fs, expired, timeoutKind, hung, out, hist>>

\* the engine is pumped: by transfer() itself while a blocking call runs, by
\* the caller's loop otherwise
ClientPump ==
    /\ scenario = "client" /\ client.started
    /\ \E connected \in BOOLEAN :
          \E r \in {clientHandleFTP(client, connected)} :
              client' = [r EXCEPT !.inCall = r.inCall /\ ~Terminal(r.ftpState)]
    /\ UNCHANGED <<variant, FTP_USER, FTP_PASS, scenario, clock, wire, srvVars, netVars,
                   fs, expired, timeoutKind, hung, out, hist>>

\* a reply of the server arrives within the wait window
ServerReplies ==
    /\ scenario = "client" /\ Waiting(client.ftpState)
    /\ client.inbox = <<>> /\ ~client.late
    /\ \E code \in ReplyCodes(client.ftpState) :
          client' = [client EXCEPT !.inbox = <<[code |-> code, msg |-> ReplyText(code)]>>]
    /\ UNCHANGED <<variant, FTP_USER, FTP_PASS, scenario, clock, wire, srvVars, netVars,
                   fs, expired, timeoutKind, hung, out, hist>>

\* the wait window of the phase closes
WaitExpires ==
    /\ scenario = "client" /\ Waiting(client.ftpState) /\ ~client.late
    /\ client' = [client EXCEPT !.late = TRUE]
    /\ UNCHANGED <<variant, FTP_USER, FTP_PASS, scenario, clock, wire, srvVars, netVars,
                   fs, expired, timeoutKind, hung, out, hist>>

-----------------------------------------------------------------------------
(* The specification *)

\* the state after the constructor and begin()
InitServer ==
    /\ cmdState = "cInit" /\ transferState = "tIdle"
    /\ command = NoCmd /\ cmdLine = <<>> /\ cmdString = <<>> /\ parameters = <<>>
    /\ cwd = SLASH /\ rnFrom = <<>>
    /\ file = NoFile /\ fileBuffer = "NULL" /\ fileBufferSize = Undef
    /\ bytesTransfered = 0
    /\ dataPassiveConn = TRUE /\ dataIP = <<0, 0, 0, 0>> /\ dataPort = FTP_DATA_PORT_PASV
    /\ control = [conn |-> FALSE, id |-> 0] /\ ctrlIn = <<>>
    /\ data = [conn |-> FALSE] /\ dataRx = <<>> /\ dataTx = <<>>
    /\ fs = InitFs
    /\ expired = FALSE /\ timeoutKind = "never"
    /\ backlog = <<>> /\ dataBacklog = FALSE /\ nextId = 1
    /\ hung = FALSE /\ out = <<>> /\ hist = NoHist
    /\ client = NoClient
    /\ wire \in {[stream |-> s, rest |-> s, decoded |-> <<>>] :
                     s \in IF scenario = "fragment" THEN Streams ELSE {<<>>}}
    /\ clock \in {[NoClock EXCEPT !.millis = m] : m \in IF scenario = "clock" THEN Boots ELSE {0}}

\* begin("", ""): anonymous clients that transfer files
Init ==
    /\ variant \in {"FTPServer", "espFtpServer"}
    /\ FTP_USER = <<>> /\ FTP_PASS = <<>>
    /\ scenario = "transfer"
    /\ InitServer

\* begin(uname, pword) with every choice of credentials; clients that log in
InitLogin ==
    /\ variant \in {"FTPServer", "espFtpServer"}
    /\ FTP_USER \in {<<>>, userOk}
    /\ FTP_PASS \in {<<>>, passOk}
    /\ scenario = "login"
    /\ InitServer

\* begin("", ""): an anonymous client whose session is cut and who returns
InitResume ==
    /\ variant \in {"FTPServer", "espFtpServer"}
    /\ FTP_USER = <<>> /\ FTP_PASS = <<>>
    /\ scenario = "resume"
    /\ InitServer

\* begin("", ""): an anonymous client that stores a file and reads it back
InitStore ==
    /\ variant \in {"FTPServer", "espFtpServer"}
    /\ FTP_USER = <<>> /\ FTP_PASS = <<>>
    /\ scenario = "store"
    /\ InitServer

\* begin("", ""): an anonymous client that does not wait for replies
InitPipeline ==
    /\ variant \in {"FTPServer", "espFtpServer"}
    /\ FTP_USER = <<>> /\ FTP_PASS = <<>>
    /\ scenario = "pipeline"
    /\ InitServer

\* begin("", ""): anonymous clients that rename
InitRename ==
    /\ variant \in {"FTPServer", "espFtpServer"}
    /\ FTP_USER = <<>> /\ FTP_PASS = <<>>
    /\ scenario = "rename"
    /\ InitServer

\* begin("", ""): an anonymous client that lists directories
InitList ==
    /\ variant \in {"FTPServer", "espFtpServer"}
    /\ FTP_USER = <<>> /\ FTP_PASS = <<>>
    /\ scenario = "list"
    /\ InitServer

\* begin("", ""): an anonymous client in a directory with a longer name
InitDeep ==
    /\ variant \in {"FTPServer", "espFtpServer"}
    /\ FTP_USER = <<>> /\ FTP_PASS = <<>>
    /\ scenario = "deep"
    /\ InitServer

\* a server whose control socket receives one of the byte streams
InitFragment ==
    /\ variant \in {"FTPServer", "espFtpServer"}
    /\ FTP_USER = <<>> /\ FTP_PASS = <<>>
    /\ scenario = "fragment"
    /\ InitServer

\* the clock of an espFtpServer
InitClock ==
    /\ variant = "espFtpServer"
    /\ FTP_USER = <<>> /\ FTP_PASS = <<>>
    /\ scenario = "clock"
    /\ InitServer

\* a client engine next to an idle server
InitClient ==
    /\ variant \in {"FTPServer", "espFtpServer"}
    /\ FTP_USER = <<>> /\ FTP_PASS = <<>>
    /\ scenario = "client"
    /\ InitServer

\* the parameters getPathName() is called with: none, relative and absolute
\* ones, with and without a separator inside and at the end
PathParams ==
    {<<>>, <<"x">>, <<"y">>, <<"x", "/">>, <<"x", "/", "y">>,
     SLASH, <<"/", "x">>, <<"/", "y">>, <<"/", "x", "/">>,
     <<"/", "x", "/", "y", "/">>, <<"/", "/">>}

\* one call of getPathName(param, fullname); the working directory moves to
\* what it returns (as CWD and CDUP make it), a call that does not return
\* leaves the server hanging
ResolvePath ==
    /\ ~hung /\ scenario = "path"
    /\ \E param \in PathParams, fullname \in BOOLEAN :
          \E r \in {getPathName(cwd, param, fullname)} :
              /\ r = Hang \/ Len(r) <= MaxPath
              /\ parameters' = param
              /\ hung' = (r = Hang)
              /\ cwd' = IF r = Hang THEN cwd ELSE r
              /\ hist' = [NoHist EXCEPT !.handler = IF fullname THEN "getPathName(true)"
                                                    ELSE "getPathName(false)"]
    /\ out' = <<>>
    /\ UNCHANGED <<cfgVars, cmdState, transferState, command, cmdLine, cmdString,
                   rnFrom, file, fileBuffer, fileBufferSize, bytesTransfered,
                   dataPassiveConn, dataIP, dataPort, netVars, fs, expired,
                   timeoutKind>>

\* begin(): the working directory is the root; paths are resolved
InitPath ==
    /\ variant \in {"FTPServer", "espFtpServer"}
    /\ FTP_USER = <<>> /\ FTP_PASS = <<>>
    /\ scenario = "path"
    /\ InitServer

\* begin("", ""): an anonymous client that sets the transfer parameters
InitParams ==
    /\ variant \in {"FTPServer", "espFtpServer"}
    /\ FTP_USER = <<>> /\ FTP_PASS = <<>>
    /\ scenario = "params"
    /\ InitServer

\* one call of handleFTP()
Pump ==
    /\ ~hung
    /\ \E connOk \in (IF dataPassiveConn THEN {TRUE} ELSE BOOLEAN),
          maxFree \in (IF cmdState = "cProcess" THEN HeapSizes ELSE {0}),
          garbage \in (IF fileBufferSize = Undef /\ cmdState = "cProcess"
                       THEN Garbage ELSE {0}) :
          \E r \in {handleFTP(Cur, [connOk |-> connOk, maxFree |-> maxFree,
                                    garbage |-> garbage])} :
              /\ cmdState' = r.cmdState /\ transferState' = r.transferState
              /\ command' = r.command /\ cmdLine' = r.cmdLine
              /\ cmdString' = r.cmdString /\ parameters' = r.parameters
              /\ cwd' = r.cwd /\ rnFrom' = r.rnFrom /\ file' = r.file
              /\ fileBuffer' = r.fileBuffer /\ fileBufferSize' = r.fileBufferSize
              /\ bytesTransfered' = r.bytesTransfered
              /\ dataPassiveConn' = r.dataPassiveConn /\ dataIP' = r.dataIP
              /\ dataPort' = r.dataPort
              /\ control' = r.control /\ ctrlIn' = r.ctrlIn
              /\ data' = r.data /\ dataRx' = r.dataRx /\ dataTx' = r.dataTx
              /\ fs' = r.fs /\ expired' = r.expired /\ timeoutKind' = r.timeoutKind
              /\ backlog' = r.backlog /\ dataBacklog' = r.dataBacklog
              /\ hung' = r.hung /\ out' = r.out /\ hist' = r.hist
    /\ UNCHANGED <<cfgVars, nextId>>

Next ==
    \/ Pump
    \/ ClientConnect
    \/ ClientSend
    \/ ClientClose
    \/ TimePasses
    \/ DataPeerConnect
    \/ DataPeerSend
    \/ DataPeerClose

Spec == Init /\ [][Next]_vars

NextLogin ==
    \/ Pump
    \/ ClientConnect
    \/ ClientSend
    \/ ClientClose
    \/ TimePasses

SpecLogin == InitLogin /\ [][NextLogin]_vars

SpecRename == InitRename /\ [][NextLogin]_vars

SpecParams == InitParams /\ [][NextLogin]_vars

SpecStore == InitStore /\ [][Next]_vars

NextResume ==
    \/ Pump
    \/ ClientConnect
    \/ ClientSend
    \/ ClientClose
    \/ TimePasses
    \/ DataPeerConnect
    \/ DataPeerClose

SpecResume == InitResume /\ [][NextResume]_vars

SpecPath == InitPath /\ [][ResolvePath]_vars

SpecPipeline == InitPipeline /\ [][NextResume]_vars

\* a listing opens and closes its data connection within one pump: the peer
\* is seen to connect only
NextList ==
    \/ Pump
    \/ ClientConnect
    \/ ClientSend
    \/ ClientClose
    \/ TimePasses
    \/ DataPeerConnect

SpecList == InitList /\ [][NextList]_vars

SpecDeep == InitDeep /\ [][NextLogin]_vars

NextFragment ==
    \/ Deliver
    \/ ReadChar

SpecFragment == InitFragment /\ [][NextFragment]_vars

NextClock ==
    \/ UpdateTimeout
    \/ Tick

SpecClock == InitClock /\ [][NextClock]_vars

NextClient ==
    \/ ClientTransfer
    \/ ClientPump
    \/ ServerReplies
    \/ WaitExpires

SpecClient == InitClient /\ [][NextClient]_vars

\* the sessions that change the working directory, and the path resolution on
\* its own
InitCwd == InitPipeline \/ InitDeep \/ InitPath

NextCwd ==
    \/ scenario /= "path" /\ NextResume
    \/ ResolvePath

SpecCwd == InitCwd /\ [][NextCwd]_vars


-----------------------------------------------------------------------------
(* Properties *)

\* the replies o contain one with this code and text
Has(o, code, msg) == \E i \in DOMAIN o : o[i].code = code /\ o[i].msg = msg

PleaseLogin == "Please login with USER and PASS."

\* the step is a pump that decoded a command line while a login was awaited
LoginCommand == hist'.pump /\ hist'.lines > 0 /\ cmdState \in {"cUserId", "cPassword"}

\* C1: login gating. In the UserId or Password phase a received command other
\* than USER (UserId phase), PASS (Password phase) or FEAT is answered 530 and
\* discarded: the command code is reset and cmdState, cwd, the rename source,
\* the transfer state and the filesystem are unchanged. Before cmdState is
\* cProcess no handler other than those of USER, PASS and FEAT runs.
C1_LoginGating ==
    [][/\ (/\ LoginCommand
           /\ PackCommand(hist'.token) /= cmdFEAT
           /\ cmdState = "cUserId" => PackCommand(hist'.token) /= cmdUSER
           /\ cmdState = "cPassword" => PackCommand(hist'.token) /= cmdPASS)
          => /\ Has(out', 530, PleaseLogin)
             /\ command' = NoCmd
             /\ hist'.handler = ""
             /\ UNCHANGED <<cmdState, cwd, rnFrom, transferState, fs>>
       /\ (hist'.pump /\ cmdState /= "cProcess")
          => hist'.handler \in {"", "USER", "PASS", "FEAT"}]_vars

\* a command was refused in the Password phase
C1_Witness ==
    /\ hist.gated /\ hist.pre = "cPassword" /\ hist.token = cmdQUIT
    /\ cmdState = "cPassword" /\ Has(out, 530, PleaseLogin)

\* C2: in WaitConnect, after Init, the file handle is closed, the data socket
\* is closed, the transfer buffer is freed and transferState is Idle, however
\* Init was reached.
C2_InitReleasesAll ==
    cmdState = "cWait"
        => ~file.open /\ ~data.conn /\ fileBuffer = "NULL" /\ transferState = "tIdle"

\* C3: a RETR processed in Processing whose path names no existing file is
\* answered 550 "File '<param>' not found.", makes no data-connection attempt
\* and leaves the transfer state Idle, whatever came before.
C3_RetrMissingFile ==
    (/\ hist.pump /\ hist.pre = "cProcess" /\ hist.handler = "RETR"
     /\ parameters /= <<>>
     /\ ~FsExists(fs, getFileName(cwd, parameters, TRUE)))
        => /\ \E i \in DOMAIN out :
                  out[i] = Reply(550, "File not found.", parameters)
           /\ ~hist.dataAttempt
           /\ transferState = "tIdle"

\* C4: a pump that answered 500 "Line too long" produces no command from that
\* input line: what follows the discard point is not decoded.
C4_LongLineDropped ==
    (hist.pump /\ Has(out, 500, "Line too long")) => hist.lines = 0

\* C5: a received token that is not one of the supported command names is
\* answered 500 unknown command with the token, and no command handler runs.
C5_NoCollision ==
    (/\ hist.pump /\ hist.pre = "cProcess" /\ hist.lines > 0
     /\ hist.token \notin SupportedCommands)
        => /\ hist.handler = "unknown"
           /\ \E i \in DOMAIN out : out[i] = Reply(500, "unknown command", hist.token)

\* the step is a pump that decoded a command line, with both credentials
\* configured, the deadline not expired and the client still there
BothLogin ==
    /\ LoginCommand /\ FTP_USER /= <<>> /\ FTP_PASS /= <<>>
    /\ ~expired /\ control.conn

\* C6: login sequencing with username and password configured, while the login
\* deadline has not expired. PASS in the UserId phase is answered 530 and the
\* phase stays UserId; a wrong PASS in the Password phase is answered 430 and
\* the phase stays Password with the same control connection open; a wrong
\* USER is answered 430 and the phase stays UserId.
C6_LoginSequencing ==
    [][BothLogin =>
          /\ (cmdState = "cUserId" /\ PackCommand(hist'.token) = cmdPASS)
             => Has(out', 530, PleaseLogin) /\ cmdState' = "cUserId"
          /\ (/\ cmdState = "cPassword" /\ PackCommand(hist'.token) = cmdPASS
              /\ parameters' /= FTP_PASS)
             => /\ Has(out', 430, "Password invalid.")
                /\ cmdState' = "cPassword" /\ control' = control
          /\ (/\ cmdState = "cUserId" /\ PackCommand(hist'.token) = cmdUSER
              /\ parameters' /= FTP_USER)
             => Has(out', 430, "User not found.") /\ cmdState' = "cUserId"]_vars

\* a wrong password was refused and the session still waits for the password
C6_Witness ==
    /\ FTP_USER /= <<>> /\ FTP_PASS /= <<>>
    /\ hist.pump /\ hist.pre = "cPassword" /\ hist.handler = "PASS"
    /\ parameters = wrong /\ cmdState = "cPassword" /\ control.conn
    /\ Has(out, 430, "Password invalid.")

\* C7: after the greeting 220 exactly the configured credentials are required.
\* UserId is entered from Check with a username configured; Password from
\* Check without a username, or from UserId by the right USER (answered 331);
\* LoginOk from Check without credentials, from UserId by the right USER when
\* no password is configured, or from Password by the right PASS. 230 is sent
\* in LoginOk only, in the pump that enters Processing, and Processing is
\* entered in no other way.
C7_Credentials ==
    [][/\ (cmdState' = "cCheck" /\ cmdState /= "cCheck")
          => cmdState = "cWait" /\ hist'.accepted
       /\ (cmdState' = "cUserId" /\ cmdState /= "cUserId")
          => cmdState = "cCheck" /\ FTP_USER /= <<>> /\ Has(out', 220, "(espFTP)")
       /\ (cmdState' = "cPassword" /\ cmdState /= "cPassword")
          => /\ FTP_PASS /= <<>>
             /\ \/ cmdState = "cCheck" /\ FTP_USER = <<>> /\ Has(out', 220, "(espFTP)")
                \/ /\ cmdState = "cUserId" /\ hist'.handler = "USER"
                   /\ parameters' = FTP_USER
                   /\ Has(out', 331, "Please specify the password.")
       /\ (cmdState' = "cLoginOk" /\ cmdState /= "cLoginOk")
          => \/ /\ cmdState = "cCheck" /\ FTP_USER = <<>> /\ FTP_PASS = <<>>
                /\ Has(out', 220, "(espFTP)")
             \/ /\ cmdState = "cUserId" /\ FTP_PASS = <<>>
                /\ hist'.handler = "USER" /\ parameters' = FTP_USER
             \/ /\ cmdState = "cPassword"
                /\ hist'.handler = "PASS" /\ parameters' = FTP_PASS
       /\ (cmdState' = "cProcess" /\ cmdState /= "cProcess")
          => /\ cmdState = "cLoginOk"
             /\ control.conn => out' = <<Reply(230, "Login successful.", <<>>)>>
       /\ Has(out', 230, "Login successful.")
          => cmdState = "cLoginOk" /\ cmdState' = "cProcess"]_vars

\* Processing was entered with 230 after USER and PASS were both required
C7_Witness ==
    /\ FTP_USER /= <<>> /\ FTP_PASS /= <<>>
    /\ hist.pump /\ hist.pre = "cLoginOk" /\ cmdState = "cProcess"
    /\ out = <<Reply(230, "Login successful.", <<>>)>>

\* the fields iniVariables() resets hold their initial values
SessionFieldsReset ==
    /\ dataPassiveConn /\ cwd = SLASH /\ transferState = "tIdle" /\ rnFrom = <<>>
    /\ cmdLine = <<>> /\ cmdString = <<>> /\ parameters = <<>> /\ command = NoCmd
    /\ fileBuffer = "NULL"

C9_OneSession ==
    [][(control'.id /= control.id \/ Len(backlog') < Len(backlog) \/ hist'.accepted)
          => hist'.pump /\ cmdState = "cWait" /\ ~control.conn]_vars

\* a pump in Processing left a second client waiting
C9_Witness ==
    /\ hist.pump /\ hist.pre = "cProcess" /\ cmdState = "cProcess"
    /\ control = [conn |-> TRUE, id |-> 1] /\ backlog = <<2>>

\* C10: after ABOR was processed transferState is Idle, the transfer buffer is
\* freed, the file handle is closed and the data socket is closed.
C10_AbortReleasesAll ==
    (hist.pump /\ hist.handler = "ABOR")
        => /\ transferState = "tIdle" /\ fileBuffer = "NULL"
           /\ ~file.open /\ ~data.conn

\* C11: between two pumps the transfer buffer is allocated exactly when a
\* transfer is active (transferState is tRetrieve or tStore).
C11_BufferIffTransfer ==
    ~hung =>
        /\ transferState \in {"tIdle", "tRetrieve", "tStore"}
        /\ (fileBuffer = "alloc") <=> (transferState /= "tIdle")

\* C12: a RETR or STOR for which allocateBuffer() leaves no buffer is answered
\* 451 and nothing else (no 150, no 226), moves no byte, and ends the pump
\* with transferState Idle and the session in Processing.
C12_AllocFailure ==
    (hist.pump /\ hist.alloc = "none" /\ control.conn /\ ~hung)
        => /\ out = <<Reply(451, "Internal error. Not enough memory.", <<>>)>>
           /\ hist.moved = 0
           /\ transferState = "tIdle" /\ cmdState = "cProcess"

\* C13: a LIST/NLST/MLSD/RETR/STOR whose data channel is not there is answered
\* 425 and finished with the session still in Processing; while the answer
\* is outstanding for a command read by an earlier pump, the session does not
\* leave Processing (a finite run that resets the session with the command
\* unanswered refutes "eventually 425").
C13_NoDataAnswered425 ==
    (/\ hist.pump /\ hist.pre = "cProcess" /\ control.conn /\ ~hung
     /\ hist.handler \in {"LIST", "RETR", "STOR"}
     /\ hist.dataAttempt /\ hist.rc = 0 /\ hist.lines = 0)
        => cmdState = "cProcess"

\* the first n bytes of the data peer's payload
Payload(n) == [i \in 1..n |-> i]

Transferred == "File successfully transferred"

\* C14: round trip. A STOR that runs to its end has put every byte the peer
\* sent into the file, in order, and a RETR of the same name that runs to its
\* end with the peer still connected has put exactly the bytes of the file, in
\* order, on the data channel, whatever the size of the transfer buffer.
C14_RoundTrip ==
    [][/\ (/\ transferState = "tStore" /\ transferState' = "tIdle"
           /\ Has(out', 226, Transferred))
          => /\ dataRx = <<>>
             /\ fs'[pathB].bytes = Payload(Len(fs'[pathB].bytes))
       /\ (/\ transferState = "tRetrieve" /\ transferState' = "tIdle"
           /\ Has(out', 226, Transferred) /\ data.conn)
          => /\ dataTx' = fs[pathB].bytes
             /\ fs' = fs
             /\ dataTx' = Payload(Len(dataTx'))]_vars

\* a two-byte file stored and read back through a buffer of one byte
C14_Witness ==
    /\ scenario = "store" /\ hist.pump /\ Has(out, 226, Transferred)
    /\ hist.handler = "" /\ fileBufferSize = 1
    /\ dataTx = <<1, 2>> /\ fs[pathB].bytes = <<1, 2>>

\* the step is a pump that polls a running receive transfer, which has its
\* buffer, once
StorePoll ==
    /\ hist'.pump /\ hist'.handler = ""
    /\ cmdState = "cProcess" /\ transferState = "tStore" /\ fileBuffer = "alloc"

\* C15: receive transfer. A poll takes min(bytes available, buffer size) bytes
\* off the data channel and appends them to the file in order; it ends the
\* transfer only when the peer is gone and nothing was available, so bytes that
\* are still waiting when the peer disconnects are written before the close.
C15_StorePoll ==
    [][StorePoll =>
          LET n == Min(Len(dataRx), fileBufferSize)
          IN  /\ hist'.moved = n
              /\ fs'[pathB].bytes = fs[pathB].bytes \o SubSeq(dataRx, 1, n)
              /\ (transferState' = "tIdle") <=> (~data.conn /\ dataRx = <<>>)
              /\ transferState' = "tStore"
                    => /\ dataRx' = SubSeq(dataRx, n + 1, Len(dataRx))
                       /\ ~Has(out', 226, Transferred)
              /\ transferState' = "tIdle"
                    => fs'[pathB].bytes = Payload(Len(fs'[pathB].bytes))]_vars

\* the peer left with two bytes still unread: the poll wrote the first through
\* a buffer of one byte, left the second waiting and kept the transfer going
C15_Witness ==
    /\ scenario = "store" /\ hist.pump /\ hist.moved = 1 /\ fileBufferSize = 1
    /\ ~data.conn /\ transferState = "tStore"
    /\ fs[pathB].bytes = <<1>> /\ dataRx = <<2>>

\* the first line waiting on the control channel, without its terminator
FirstLine(s) == SubSeq(s, 1, FirstTerminator(s) - 1)

\* the first word of a line
FirstWord(l) == IF IndexOf(l, " ") > 0 THEN RemoveFrom(l, IndexOf(l, " ")) ELSE l

\* C16: one pump decodes at most one command line, runs at most one handler
\* and moves at most one chunk, no larger than the transfer buffer; while a
\* command is pending nothing is taken off the control channel; the line
\* decoded is the oldest one waiting and the handler run is that line's, so
\* commands complete in the order of arrival.
C16_OnePerPump ==
    [][hist'.pump =>
          /\ hist'.lines <= 1 /\ hist'.calls <= 1
          /\ hist'.moved > 0
                => /\ hist'.moved <= fileBufferSize'
                   /\ Len(dataTx') <= Len(dataTx) + hist'.moved
          /\ hist'.moved = 0 => dataTx' \in {dataTx, <<>>}
          /\ (command /= NoCmd /\ cmdState = "cProcess")
                => /\ hist'.lines = 0
                   /\ ctrlIn' = ctrlIn
                   /\ hist'.calls = 1 => hist'.cmd = command
          /\ hist'.lines = 1
                => /\ command = NoCmd
                   /\ ctrlIn = FirstLine(ctrlIn) \o <<"\n">> \o ctrlIn'
                   /\ hist'.token = ToUpperCase(FirstWord(FirstLine(ctrlIn)))
                   /\ hist'.calls = 1 /\ hist'.cmd = PackCommand(hist'.token)]_vars

\* NOOP and SYST arrived in one write during a download: the pump handled NOOP
\* and moved one chunk of one byte; SYST is still waiting
C16_Witness ==
    /\ scenario = "pipeline" /\ hist.pump /\ hist.lines = 1 /\ hist.calls = 1
    /\ hist.handler = "NOOP" /\ ctrlIn = cmdSYST \o <<"\n">>
    /\ hist.moved = 1 /\ transferState = "tRetrieve"

\* C17: in the Processing state a pump that ran a handler and finished the
\* command (the command code is clear again, the session goes on) has reset
\* the session deadline.
C17_DeadlineRefreshed ==
    (/\ hist.pump /\ hist.pre = "cProcess" /\ hist.calls = 1 /\ ~hung
     /\ command = NoCmd /\ cmdState = "cProcess" /\ control.conn)
        => hist.tmoReset /\ ~expired /\ timeoutKind = "session"

\* the path an RNTO names (the working directory of the renaming clients is
\* the root)
Target == SLASH \o parameters'

\* C18: RNTO clears the rename source whatever it answers (503, 501, 553, 451,
\* 250). Without a source it answers 503; with a source and an existing target
\* it answers 553 and renames nothing; only an accepted RNFR (350) sets the
\* source, so an RNTO after an RNTO with no RNFR accepted in between finds it
\* empty and answers 503.
C18_RntoClearsSource ==
    [][/\ (hist'.pump /\ hist'.handler = "RNTO")
          => /\ rnFrom' = <<>>
             /\ Len(out') = 1 /\ out'[1].code \in {503, 501, 553, 451, 250}
             /\ (out'[1].code = 503) <=> (rnFrom = <<>>)
             /\ (out'[1].code = 553)
                   <=> (rnFrom /= <<>> /\ parameters' /= <<>> /\ FsExists(fs, Target))
             /\ out'[1].code /= 250 => fs' = fs
             /\ out'[1].code = 250
                   => fs' = [fs EXCEPT ![Target] = fs[rnFrom], ![rnFrom] = NoEntry]
       /\ (rnFrom' /= <<>> /\ rnFrom' /= rnFrom)
          => /\ hist'.handler = "RNFR" /\ Has(out', 350, "RNFR accepted")
             /\ FsExists(fs, rnFrom')]_vars

\* RNFR a was accepted and RNTO d, a directory that exists, was answered 553:
\* nothing was renamed and the source is gone
C18_Witness ==
    /\ scenario = "rename" /\ hist.pump /\ hist.handler = "RNTO"
    /\ parameters = nameD /\ Len(out) = 1 /\ out[1].code = 553
    /\ rnFrom = <<>> /\ fs = InitFs

\* a path without its trailing separators; the root stays, nothing becomes the
\* root
RECURSIVE Normalized(_)
Normalized(s) ==
    IF Len(s) > 1 /\ s[Len(s)] = "/" THEN Normalized(SubSeq(s, 1, Len(s) - 1))
    ELSE IF s = <<>> THEN SLASH ELSE s

\* cwd + '/' + p
Joined(dir, p) == (IF dir = SLASH THEN dir ELSE dir \o SLASH) \o p

\* C19: for a parameter that does not start with '/', getPathName(p, true) is
\* the normalized cwd + '/' + p (cwd itself for the empty parameter) and
\* getPathName(p, false) is cwd; the call returns.
C19_RelativePath ==
    [][(/\ hist'.handler \in {"getPathName(true)", "getPathName(false)"}
        /\ (parameters' = <<>> \/ parameters'[1] /= "/"))
          => /\ ~hung'
             /\ hist'.handler = "getPathName(true)"
                   => cwd' = Normalized(IF parameters' = <<>> THEN cwd
                                        ELSE Joined(cwd, parameters'))
             /\ hist'.handler = "getPathName(false)" => cwd' = cwd]_vars

\* C20: for a parameter that starts with '/', getPathName(p, true) is p without
\* its trailing separators, whatever the working directory; the call returns.
C20_AbsolutePath ==
    [][(/\ hist'.handler = "getPathName(true)"
        /\ parameters' /= <<>> /\ parameters'[1] = "/")
          => /\ ~hung'
             /\ cwd' = Normalized(parameters')]_vars

\* what CDUP and PWD, received as such, answer and leave as working directory
\* in the present state
AsReceived(c) == IF c = cmdCDUP THEN hCDUP(Cur) ELSE hPWD(Cur)

\* C21: "CWD .." is CDUP and "CWD ." is PWD. With no transfer running, the
\* pump that reads the CWD answers nothing, keeps cwd and the session and
\* leaves CDUP (PWD) pending; the next pump reads no line and completes it with
\* the replies and the cwd of a CDUP (PWD) received as such.
C21_CwdDots ==
    [][(hist'.pump /\ cmdState = "cProcess" /\ transferState = "tIdle")
          => /\ (hist'.handler = "CWD" /\ parameters' \in {<<".">>, <<".", ".">>})
                => /\ command' = IF parameters' = <<".">> THEN cmdPWD ELSE cmdCDUP
                   /\ out' = <<>> /\ cwd' = cwd /\ cmdState' = "cProcess"
             /\ command \in {cmdCDUP, cmdPWD}
                => /\ hist'.lines = 0 /\ ctrlIn' = ctrlIn /\ command' = NoCmd
                   /\ out' = AsReceived(command).out
                   /\ cwd' = AsReceived(command).cwd
             /\ (hist'.lines = 1 /\ hist'.handler \in {"CDUP", "PWD"})
                => /\ out' = AsReceived(hist'.cmd).out
                   /\ cwd' = AsReceived(hist'.cmd).cwd]_vars

\* C22: MODE S and STRU F, the supported values, are answered 200; MODE and
\* STRU with another parameter and TYPE with an unsupported one are answered
\* 504.
C22_TransferParameters ==
    (hist.pump /\ hist.pre = "cProcess" /\ Len(out) > 0)
        => /\ hist.handler = "MODE"
              => out[1].code = IF parameters = <<"S">> THEN 200 ELSE 504
           /\ hist.handler = "STRU"
              => out[1].code = IF parameters = <<"F">> THEN 200 ELSE 504
           /\ (hist.handler = "TYPE" /\ parameters \notin {<<"A">>, <<"I">>})
              => out[1].code = 504

\* the fields of a comma-separated list
RECURSIVE Fields(_)
Fields(s) ==
    IF IndexOf(s, ",") < 0 THEN <<s>>
    ELSE <<SubSeq(s, 1, IndexOf(s, ","))>> \o Fields(SubstringFrom(s, IndexOf(s, ",") + 1))

\* a decimal number in 0..255
IsOctet(f) ==
    /\ f /= <<>> /\ Len(f) <= 3 /\ \A i \in 1..Len(f) : IsDigit(f[i])
    /\ AtoiDigits(f, 0) <= 255

\* six comma-separated decimal numbers, each in 0..255
WellFormedPort(s) ==
    Len(Fields(s)) = 6 /\ \A i \in 1..6 : IsOctet(Fields(s)[i])

\* C23: a PORT parameter that is not six comma-separated numbers in 0..255 is
\* answered 501 and leaves the data mode, address and port as they were; a well
\* formed a,b,c,d,p1,p2 is answered 200 and stores active mode, a.b.c.d and
\* p1 * 256 + p2.
C23_PortParameter ==
    [][(hist'.pump /\ hist'.handler = "PORT" /\ cmdState = "cProcess")
          => LET f == Fields(parameters')
             IN  IF WellFormedPort(parameters')
                 THEN /\ out'[1].code = 200
                      /\ ~dataPassiveConn'
                      /\ dataIP' = [i \in 1..4 |-> AtoiDigits(f[i], 0)]
                      /\ dataPort' = AtoiDigits(f[5], 0) * 256 + AtoiDigits(f[6], 0)
                 ELSE /\ out'[1].code = 501
                      /\ UNCHANGED <<dataPassiveConn, dataIP, dataPort>>]_vars

\* the session fields a NOOP is not to touch
SessionFields ==
    <<cmdState, transferState, cwd, rnFrom, dataPassiveConn, dataIP, dataPort,
      parameters, fileBuffer, fileBufferSize, file>>

\* C24: a pump that reads and answers PWD leaves cwd as it was; with no
\* transfer running, a pump that reads and answers NOOP leaves every session
\* field (control state, transfer state, cwd, rename source, data mode, address
\* and port, parameter string, buffer, file handle) as it was.
C24_NoopPwdIdempotent ==
    [][(hist'.pump /\ cmdState = "cProcess" /\ hist'.lines = 1)
          => /\ hist'.handler = "PWD" => cwd' = cwd
             /\ (hist'.handler = "NOOP" /\ transferState = "tIdle")
                => UNCHANGED SessionFields]_vars

\* C24 (amended): a pump that reads and answers PWD leaves cwd as it was; with
\* no transfer running, a pump that reads and answers a bare NOOP leaves every
\* session field but the deadline and the parameter string as it was, and the
\* parameter string becomes the (empty) parameter of the NOOP line.
C24_NoopFrame ==
    [][(hist'.pump /\ cmdState = "cProcess" /\ hist'.lines = 1)
          => /\ hist'.handler = "PWD" => cwd' = cwd
             /\ (hist'.handler = "NOOP" /\ transferState = "tIdle")
                => /\ UNCHANGED <<cmdState, transferState, cwd, rnFrom,
                                  dataPassiveConn, dataIP, dataPort,
                                  fileBuffer, fileBufferSize, file>>
                   /\ parameters' = <<>>]_vars

\* a NOOP was answered in a subdirectory, after a command that had a parameter
C24_Witness ==
    /\ scenario = "pipeline" /\ hist.pump /\ hist.pre = "cProcess"
    /\ hist.handler = "NOOP" /\ hist.lines = 1 /\ transferState = "tIdle"
    /\ cwd /= <<"/">> /\ parameters = <<>>

\* the directory a listing command is about
Listed == DirEntries(fs, getFileName(cwd, parameters', TRUE))

\* C25: a pump that runs LIST, NLST or MLSD and announces the listing with 150
\* prints exactly one record per entry of the directory the resolved path
\* names (the working directory when there is no parameter), ends with
\* "226 <n> matches total" where n is the number of records printed, and
\* leaves the data socket closed.
C25_Listing ==
    [][(hist'.pump /\ hist'.handler = "LIST" /\ out' /= <<>> /\ out'[1].code = 150)
          => /\ Len(dataTx') = Cardinality(Listed)
             /\ {dataTx'[i] : i \in 1..Len(dataTx')} = Listed
             /\ out'[Len(out')] = Reply(226, "matches total", Decimal(Len(dataTx')))
             /\ ~data'.conn]_vars

\* the arrows of the state diagram
Diagram ==
    {<<"cInit", "cWait">>, <<"cWait", "cCheck">>,
     <<"cCheck", "cUserId">>, <<"cCheck", "cPassword">>, <<"cCheck", "cLoginOk">>,
     <<"cUserId", "cPassword">>, <<"cUserId", "cLoginOk">>,
     <<"cPassword", "cLoginOk">>, <<"cLoginOk", "cProcess">>}
       \cup {<<s, "cInit">> : s \in {"cCheck", "cUserId", "cPassword", "cLoginOk", "cProcess"}}

\* the configured credentials the session has matched when it stands in st
\* and its last pump ran handler h with parameter p
UserMatched(st, h, p) ==
    FTP_USER = <<>> \/ st = "cPassword" \/ (st = "cUserId" /\ h = "USER" /\ p = FTP_USER)
PassMatched(st, h, p) ==
    FTP_PASS = <<>> \/ (st = "cPassword" /\ h = "PASS" /\ p = FTP_PASS)

\* C26: every change of the control state is an arrow of the state diagram
\* (Processing is entered from LoginOk only, every state from Check onward
\* may fall back to Init); Password is left behind or skipped only with the
\* user name matched, and LoginOk is entered only with every configured
\* credential matched in this session.
C26_StateDiagram ==
    [][/\ cmdState' /= cmdState => <<cmdState, cmdState'>> \in Diagram
       /\ (cmdState' = "cPassword" /\ cmdState /= "cPassword")
          => UserMatched(cmdState, hist'.handler, parameters') \/ cmdState = "cCheck"
       /\ (cmdState' = "cPassword" /\ cmdState = "cCheck") => FTP_USER = <<>>
       /\ (cmdState' = "cLoginOk" /\ cmdState /= "cLoginOk")
          => /\ UserMatched(cmdState, hist'.handler, parameters')
             /\ PassMatched(cmdState, hist'.handler, parameters')]_vars

\* a session went all the way: Processing was entered from LoginOk after both
\* configured credentials were matched
C26_Witness ==
    /\ FTP_USER = userOk /\ FTP_PASS = passOk
    /\ hist.pump /\ hist.pre = "cLoginOk" /\ cmdState = "cProcess" /\ control.conn
    /\ nextId > 2

\* a step of the client engine that ends a wait (not the start of a new
\* transfer)
WaitEnds == Waiting(client.ftpState) /\ client' /= client /\ client'.ftpState /= "cConnect"

\* C27: in every phase of the client that waits for a reply, a step that
\* takes a reply with another code than the expected one ends in a terminal
\* state with result ERROR and the reply's code and text in the status record,
\* and so does (with result ERROR) a step taken after the wait deadline with
\* no reply; the result is PROGRESS in every non-terminal phase of a started
\* transfer and OK only in Idle, reached from Quit by the expected reply; a
\* blocking transfer() has returned only in a terminal state.
C27_ClientSession ==
    [][/\ (WaitEnds /\ client.inbox /= <<>> /\ client'.inbox = <<>>)
          => IF client.inbox[1].code = Expected(client.ftpState)
             THEN client'.ftpState = NextPhase(client.ftpState)
             ELSE /\ Terminal(client'.ftpState)
                  /\ client'.status = [result |-> "ERROR", code |-> client.inbox[1].code,
                                       desc |-> client.inbox[1].msg]
       /\ (WaitEnds /\ client.inbox = <<>> /\ client.late)
          => Terminal(client'.ftpState) /\ client'.status.result = "ERROR"
       /\ (client'.started /\ ~Terminal(client'.ftpState))
          => client'.status.result = "PROGRESS"
       /\ (client'.started /\ client'.status.result = "OK")
          => /\ client'.ftpState = "cIdle"
             /\ client.ftpState \in {"cQuit", "cIdle"}
       /\ (client'.started /\ client'.blocking /\ ~client'.inCall)
          => Terminal(client'.ftpState)]_vars

\* a blocking transfer() has returned with the refusal of the server on record
C27_Witness ==
    /\ scenario = "client" /\ client.started /\ client.blocking /\ ~client.inCall
    /\ client.ftpState = "cError"
    /\ client.status = [result |-> "ERROR", code |-> 530,
                        desc |-> "Please login with USER and PASS."]

\* C28: every pump returns: no call of handleFTP() is left hanging in the
\* path resolution of the command dispatch, whatever the working directory
\* and the parameter are.
C28_PumpReturns == ~hung

\* C29: a pump that decodes FEAT in UserId or Password (connection up,
\* deadline not passed) answers with the 211 feature list and nothing else,
\* leaves cmdState as it was and the command done with (reset), so that the
\* next command still meets the login requirement.
C29_FeatBeforeLogin ==
    [][(/\ hist'.pump /\ cmdState \in {"cUserId", "cPassword"} /\ ~expired
        /\ hist'.lines = 1 /\ hist'.token = cmdFEAT /\ control'.conn)
          => /\ out' = <<Reply(211, "Features", <<>>)>>
             /\ cmdState' = cmdState /\ command' = NoCmd]_vars

\* C30: a deadline set by updateTimeout(s) at tick t has passed exactly when
\* s*1000 ms or more have gone by since t: 10 s for the login deadline, 5
\* minutes (FTP_TIME_OUT*60 s) for the default inactivity deadline.
C30_DeadlineSeconds ==
    (scenario = "clock" /\ clock.s > 0)
        => (DeadlinePassed(clock) <=> clock.millis - clock.at >= clock.s * 1000)

\* the commands readChar() returns, call after call, when the whole of s is
\* in the socket before the first call
RECURSIVE DecodeRest(_)
DecodeRest(w) ==
    IF w.ctrlIn = <<>> THEN <<>>
    ELSE LET r == ReadLoop([w EXCEPT !.command = NoCmd])
         IN  (IF r.rc > 0 THEN << <<r.cmdString, r.parameters>> >> ELSE <<>>)
                 \o DecodeRest(r)
AtOnce(s) == DecodeRest([Cur EXCEPT !.ctrlIn = s, !.cmdLine = <<>>])

IsPrefix(a, b) == Len(a) <= Len(b) /\ a = SubSeq(b, 1, Len(a))
NoBackslash(s) == \A i \in 1..Len(s) : s[i] /= "\\"

\* C31: however the bytes of a stream are split across the calls of
\* readChar(), the commands (token, parameter) decoded so far are the first
\* ones of the commands decoded from the stream delivered at once, and all of
\* them once every byte was read; a call returns at most one command; a
\* terminator with nothing but blanks before it returns none (no token is
\* empty); no decoded token or parameter holds a '\'.
C31_SplitIndependent ==
    scenario = "fragment"
        => /\ IsPrefix(wire.decoded, AtOnce(wire.stream))
           /\ (wire.rest = <<>> /\ ctrlIn = <<>>) => wire.decoded = AtOnce(wire.stream)
           /\ hist.lines <= 1
           /\ \A i \in 1..Len(wire.decoded) :
                 /\ wire.decoded[i][1] /= <<>>
                 /\ NoBackslash(wire.decoded[i][1]) /\ NoBackslash(wire.decoded[i][2])

\* a command with a backslash in its parameter was decoded, and the next
\* line has arrived in part: it waits in the line buffer for its terminator
C31_Witness ==
    /\ scenario = "fragment" /\ hist.pump /\ hist.lines = 0
    /\ wire.decoded = << <<cmdCWD, <<"/", "d">> >> >>
    /\ cmdLine = <<"/">> /\ ctrlIn = <<>> /\ wire.rest = <<"\n">>

\* C32: a pump in which RETR announces a Send transfer with 150 leaves the
\* file handle open for reading on the path resolved from that RETR's own
\* parameter, positioned at most one chunk behind offset 0 (the pump may move
\* the first chunk right away), with the bytes sent so far being the first
\* bytes of that file.
C32_RetrOwnFile ==
    (/\ hist.pump /\ hist.pre = "cProcess" /\ hist.handler = "RETR"
     /\ \E i \in DOMAIN out : out[i].code = 150)
        => /\ file.open /\ file.mode = "r"
           /\ file.path = getFileName(cwd, parameters, TRUE)
           /\ file.pos = hist.moved

\* C33: a pump that ends a Send transfer with "226 File successfully
\* transferred" has the whole file on the data channel: the bytes written to
\* the data socket are the bytes of the file that was being sent.
C33_SuccessMeansComplete ==
    [][(/\ hist'.pump /\ transferState = "tRetrieve" /\ transferState' = "tIdle"
        /\ file.open /\ file.path \in FsPaths
        /\ Has(out', 226, "File successfully transferred"))
          => dataTx' = fs[file.path].bytes]_vars

\* C34: a pump that processes CWD, SIZE or MDTM while a Send transfer is
\* active (connections up, deadline not passed) leaves the transfer as the
\* transfer step alone would: either it goes on, with the same file open, the
\* read offset and the byte counter advanced by the chunk moved, or it ends
\* with the whole file on the data channel.
C34_QueryLeavesTransfer ==
    [][(/\ hist'.pump /\ transferState = "tRetrieve" /\ ~expired /\ ~hung'
        /\ control'.conn /\ data.conn /\ file.open /\ file.path \in FsPaths
        /\ hist'.handler \in {"CWD", "SIZE", "MDTM"})
          => \/ /\ transferState' = "tRetrieve"
                /\ file' = [file EXCEPT !.pos = @ + hist'.moved]
                /\ bytesTransfered' = bytesTransfered + hist'.moved
             \/ /\ transferState' = "tIdle"
                /\ dataTx' = fs[file.path].bytes]_vars

\* C35: a pump that starts in UserId or Password with the login deadline
\* passed and the control connection up, and runs no command handler, sends
\* 530 Timeout and resets the session (cmdState = cInit), whether or not it
\* reads a command that is refused with 530 "Please login".
C35_LoginDeadline ==
    [][(/\ hist'.pump /\ cmdState \in {"cUserId", "cPassword"} /\ expired
        /\ control.conn /\ hist'.handler = "")
          => Has(out', 530, "Timeout.") /\ cmdState' = "cInit"]_vars

\* C36: a pump in Processing that is done with a command line (one it has
\* just read, or one left pending by the pump before), with the control
\* connection up, writes at least one reply; a correct USER or PASS after
\* login is such a command.
C36_EveryLineAnswered ==
    [][(/\ hist'.pump /\ cmdState = "cProcess" /\ control.conn /\ ~hung'
        /\ (hist'.lines = 1 \/ command /= NoCmd) /\ command' = NoCmd)
          => out' /= <<>>]_vars

\* C37: a pump that runs the STOR handler on an existing file and does not
\* start a Receive transfer (it answers 425, or the data connection is still
\* pending and may never come) leaves the content of that file as it was.
C37_StorKeepsContent ==
    [][(/\ hist'.pump /\ hist'.handler = "STOR" /\ ~hung'
        /\ transferState = "tIdle" /\ transferState' = "tIdle"
        /\ ~(\E i \in DOMAIN out' : out'[i].code = 150)
        /\ Target \in FsPaths /\ fs[Target].kind = "file")
          => fs'[Target] = fs[Target]]_vars

\* C38: transfer progress never refreshes the session deadline.  A pump that
\* runs no command while a Send or Receive transfer moves data leaves the
\* deadline as it was; when the deadline has passed that pump answers
\* 530 "Timeout." and goes to cInit with the transfer still open and not
\* reported as complete, and the pump after it aborts the transfer with 426,
\* drops the control connection and resets the session.
C38_TimeoutEndsTransfer ==
    [][/\ (/\ hist'.pump /\ ~hung' /\ control.conn /\ cmdState = "cProcess"
           /\ transferState \in {"tRetrieve", "tStore"}
           /\ hist'.handler = "" /\ hist'.moved > 0)
          => /\ expired' = expired /\ timeoutKind' = timeoutKind
             /\ transferState' = transferState
             /\ expired => /\ Has(out', 530, "Timeout.")
                           /\ cmdState' = "cInit"
                           /\ ~(\E i \in DOMAIN out' : out'[i].code = 226)
       /\ (/\ hist'.pump /\ cmdState = "cInit" /\ control.conn
           /\ transferState \in {"tRetrieve", "tStore"})
          => /\ Has(out', 426, "Transfer aborted")
             /\ transferState' = "tIdle" /\ cmdState' = "cWait"
             /\ ~control'.conn /\ ~file'.open /\ ~data'.conn]_vars

C38_Witness ==
    /\ hist.pump /\ hist.pre = "cProcess" /\ hist.handler = "" /\ hist.moved > 0
    /\ expired /\ Has(out, 530, "Timeout.") /\ cmdState = "cInit"
    /\ transferState \in {"tRetrieve", "tStore"} /\ file.open /\ data.conn

\* C39: once a pump has rejected an RNFR (501 or 550) the rename source is
\* forgotten: an RNTO given next, whatever its parameter, is answered 503
\* and renames nothing.
C39_RejectedRnfrForgets ==
    (/\ hist.pump /\ hist.handler = "RNFR" /\ control.conn /\ ~hung
     /\ \E i \in DOMAIN out : out[i].code \in {501, 550})
      => \A p \in {nameB, nameD, nameN} :
             LET r == hRNTO([Cur EXCEPT !.parameters = p],
                            getFileName(cwd, p, TRUE))
             IN  /\ Has(r.out, 503, "Need RNFR before RNTO")
                 /\ r.fs = fs

\* a normalized absolute path
IsNormal(p) ==
    /\ p /= <<>> /\ p[1] = "/"
    /\ (Len(p) > 1 => p[Len(p)] /= "/")

\* C40: the working directory is always a normalized absolute path: it is
\* not empty, starts with '/', and ends with '/' only when it is the root;
\* a CDUP handled at the root leaves it "/".
C40_CwdNormal ==
    /\ IsNormal(cwd)
    /\ [][/\ IsNormal(cwd')
          /\ (hist'.pump /\ hist'.handler = "CDUP" /\ cwd = SLASH) => cwd' = SLASH]_vars

C40_Witness ==
    /\ scenario = "deep" /\ hist.pump /\ hist.handler = "CWD" /\ ~hung
    /\ parameters = <<"/", "d", "/">>
    /\ Has(out, 250, "Directory successfully changed.")
    /\ IsNormal(cwd)
=============================================================================
